---- MODULE Spec2Model ----
(***************************************************************************)
(* The voice session coordinator of cortana-pro-ai: the component          *)
(* VoiceChatSimple and the hook useDirectWebPubSubClient it mounts.        *)
(*                                                                         *)
(* React state is modelled twice: the variable itself is the value the     *)
(* state holds once every queued setter has been applied, and `rendered`   *)
(* is the value the closures of the latest render captured.  A handler     *)
(* reads `rendered` (or an older capture) where the code reads a state     *)
(* variable, and the variable itself where the code reads a ref.           *)
(***************************************************************************)
EXTENDS Integers, Sequences, FiniteSets, TLC

\* ---------------------------------------------------------------- bounds
\* connect() calls that pass the guard (each creates at most one client)
MaxAttempts == 2
\* disconnect() calls that await the stop() of a client at one time
MaxDisconnects == 2

\* recognition engines ever created
MaxEngines == 3
\* recognition engines that have not ended, with those about to be created
MaxLiveEngines == 2
\* startRecording calls suspended at the microphone probe at one time
MaxProbes == 2
\* results in the result lists of the sessions
MaxResults == 3
\* entries of the Message Log before a further handler run is considered
MaxMessages == 4
\* sends and speech calls up to which the specification of the log follows
\* a further write
MaxLogged == 2
\* sendToGroup calls recorded in the outbox
MaxSends == 3
\* speakMessage calls ever made
MaxSpeakJobs == 2
\* the clock: it stands at 0, TickMs, 3 TickMs, ... up to MaxTime
MaxPhrases == 2
\* parts given to speakMessageWithMixedStyles
MaxParts == 2
\* local voices of the browser
MaxVoices == 2
MaxTime == 6000
TickMs == 2000

\* ------------------------------------------------------------- constants
\* (now - lastProcessedRef.current.timestamp) < 2000
DedupWindowMs == 2000
\* (Date.now() - connectionStateRef.current.lastUpdate) < 5000
RecentWindowMs == 5000
\* (Date.now() - recentSentMessage.timestamp) < 10000
EchoWindowMs == 10000

ErrNone == "none"
\* 'Client URL with JWT token is required...' (part_003:160)
ErrConfig == "client-url-required"
\* 'Connection lost. Manual reconnection required.' (part_003:208)
ErrLost == "connection-lost-manual-reconnection-required"
\* 'WebPubSub requires authentication. Running in development mode.'
ErrAuth == "requires-authentication-development-mode"
\* 'Azure Web PubSub service is at capacity. Running in development mode.'
ErrCapacity == "at-capacity-development-mode"
\* any other message of a rejected start()
ErrOther == "start-failed"

FailureKinds == {"auth", "capacity", "other"}

VARIABLES
    now,                 \* Date.now(), in ms
    config,              \* what the environment provides, fixed at start
    lastMessage,         \* useState of the hook: the type of the last message
    \* ---- useDirectWebPubSubClient
    isConnected,         \* useState
    isConnecting,        \* useState
    connectionError,     \* useState
    client,              \* useState: id of the client, 0 for null
    clientRef,           \* useRef:   id of the client, 0 for null
    clients,             \* the WebPubSubClient instances ever created
    attempts,            \* connect() calls that passed the guard, by caller
    isManualDisconnectRef, \* useRef
    reconnectTimeoutRef, \* useRef: 0 for null (no code sets a timer)
    disconnects,         \* disconnect() calls that await the stop() of a client
    \* ---- the latest render of VoiceChatSimple
    mounted,             \* the effects of the first render have run
    unmounted,           \* the cleanups of the effects have run
    rendered,            \* the state values the latest render's closures hold
    connectionStateRef,  \* useRef {isConnected, lastUpdate}
    startRecordingClosure, \* what the memoized startRecording captured
    \* ---- VoiceChatSimple: capture
    isRecording,         \* useState
    isInitializingRef,   \* useRef
    recognitionRef,      \* useRef: id of the engine, 0 for null
    engines,             \* the SpeechRecognition instances ever created
    probes,              \* startRecording calls awaiting getUserMedia
    restartTimers,       \* engines with a pending onend restart timer
    resultLists,         \* per engine, the result list of its session so far
    \* ---- VoiceChatSimple: dispatch
    isTranscribing,      \* useState
    lastProcessedRef,    \* useRef {text, timestamp}, text <<>> for null
    messages,            \* the Message Log ('cortana-messages')
    inflight,            \* processTranscript runs awaiting the transport send
    outbox,              \* the texts of the hook's sendToGroup calls
    lastCall,            \* the transcript of the latest processTranscript calls
                         \* and when one of them called sendToGroup (-1: none)
    lastSent,            \* the last transcript whose send succeeded, and when
    sendErrorShown,      \* the notice 'Failed to send voice message' was shown
    \* ---- VoiceChatSimple: speech
    speakJobs,           \* the speakMessage calls and how far each got
    styleText,           \* the text given to speakReceivedMessageWithDynamicStyles
    styleRun,            \* whether it ran, its styledParts and its hand-over
    textParts,           \* the parts given to speakMessageWithMixedStyles
    ssmlCalls,           \* the SSML of the speakSsmlAsync calls it made
    \* ---- AIService
    voices,              \* speechSynthesis.getVoices()
    voicePreference,     \* preferences.voice
    utterances,          \* what speakText gave to speechSynthesis.speak
    \* ---- ConversationHistory
    lastConfirm          \* the answer to the latest confirm() of clearHistory

connVars == <<isConnected, isConnecting, connectionError, client, clientRef,
              clients, attempts>>
renderVars == <<mounted, unmounted, rendered, connectionStateRef, startRecordingClosure>>
captureVars == <<isRecording, isInitializingRef, recognitionRef, engines, probes,
                 restartTimers>>
dispatchVars == <<isTranscribing, lastProcessedRef, messages, inflight, outbox,
                  lastCall, lastSent>>
styleVars == <<styleText, styleRun, textParts, ssmlCalls>>
voiceVars == <<voices, voicePreference, utterances>>
hookRefs == <<isManualDisconnectRef, reconnectTimeoutRef, disconnects>>
vars == <<now, config, lastMessage, sendErrorShown, styleVars, voiceVars, lastConfirm, hookRefs, resultLists, connVars, renderVars, captureVars, dispatchVars,
          speakJobs>>

\* config.groups of the hook: the group the component passes, and a second
\* one for the configurations with more than one group
Groups == {"cortana-users", "cortana-alerts"}

Clients == 1..Len(clients)
NumAttempts == attempts.mount + attempts.manual

\* A client is active from start() until it stops or its start() is rejected.
ActiveClients ==
    {c \in Clients : clients[c].status \in {"starting", "connected", "recovering"}}

\* The state values a render captures.
Tracked ==
    [isConnected |-> isConnected, isConnecting |-> isConnecting,
     connectionError |-> connectionError, isRecording |-> isRecording,
     isTranscribing |-> isTranscribing]

Engines == 1..Len(engines)

\* An engine is active from start() until it is stopped, fails or ends.
ActiveEngines == {e \in Engines : engines[e].status = "started"}

\* the engines whose onend is still to come
LiveEngines == {e \in Engines : engines[e].status # "ended"}

NoTranscript == [text |-> <<>>, timestamp |-> 0]

\* s without its i-th element
Remove(s, i) == [j \in 1..(Len(s) - 1) |-> IF j < i THEN s[j] ELSE s[j + 1]]

\* lastMessage before any message: null
NoMessage == [type |-> "none"]

InitState ==
    /\ now = 0
    /\ config \in [clientUrl : BOOLEAN, speechRecognition : BOOLEAN,
                    speechKey : BOOLEAN, speechSynthesis : BOOLEAN]
    /\ isConnected = FALSE
    /\ isConnecting = FALSE
    /\ connectionError = ErrNone
    /\ client = 0
    /\ clientRef = 0
    /\ clients = <<>>
    /\ attempts = [mount |-> 0, manual |-> 0]
    /\ isManualDisconnectRef = FALSE
    /\ reconnectTimeoutRef = 0
    /\ disconnects = 0
    /\ mounted = FALSE
    /\ unmounted = FALSE
    /\ connectionStateRef = [isConnected |-> FALSE, lastUpdate |-> 0]
    /\ startRecordingClosure = [isRecording |-> FALSE, isConnected |-> FALSE]
    /\ isRecording = FALSE
    /\ isInitializingRef = FALSE
    /\ recognitionRef = 0
    /\ engines = <<>>
    /\ probes = <<>>
    /\ restartTimers = {}
    /\ sendErrorShown = FALSE
    /\ resultLists = [e \in 1..(MaxEngines + 1) |-> <<>>]
    /\ lastMessage = NoMessage
    /\ isTranscribing = FALSE
    /\ lastProcessedRef = NoTranscript
    /\ messages = <<>>
    /\ inflight = <<>>
    /\ outbox = <<>>
    /\ lastCall = [text |-> <<>>, sentAt |-> -1]
    /\ lastSent = NoTranscript
    /\ speakJobs = <<>>
    /\ rendered = Tracked

\* ------------------------------------------------- useDirectWebPubSubClient

\* connectInternal after its guard, up to `await webPubSubClient.start()`.
\* Without a client URL the throw lands in the catch's default branch.
ConnectBody(by) ==
    /\ attempts' = [attempts EXCEPT ![by] = @ + 1]
    /\ isManualDisconnectRef' = FALSE
    /\ IF ~config.clientUrl
         THEN /\ isConnecting' = FALSE
              /\ connectionError' = ErrConfig
              /\ UNCHANGED <<isConnected, client, clientRef, clients>>
         ELSE /\ clients' = Append(clients, [status |-> "starting", lost |-> FALSE,
                                             groups |-> [g \in Groups |-> "none"]])
              /\ clientRef' = Len(clients) + 1
              /\ client' = Len(clients) + 1
              /\ isConnecting' = TRUE
              /\ connectionError' = ErrNone
              /\ UNCHANGED isConnected

\* connectInternal as the latest render returned it: its guard reads the
\* isConnecting and isConnected that render captured.
ConnectGuard == rendered.isConnecting \/ rendered.isConnected

\* connect() called by a user of the hook (the hook returns it as `connect`).
Connect ==
    /\ mounted
    /\ IF ConnectGuard
         THEN UNCHANGED <<connVars, isManualDisconnectRef>>
         ELSE NumAttempts < MaxAttempts /\ ConnectBody("manual")
    /\ UNCHANGED <<now, config, lastMessage, resultLists, sendErrorShown, styleVars, voiceVars, lastConfirm, reconnectTimeoutRef, disconnects, renderVars, captureVars, dispatchVars, speakJobs>>

\* webPubSubClient.on('connected'): the flags, then joinGroup is called for
\* every group of the configuration before any of the calls settles
ClientConnected ==
    \E c \in Clients :
        /\ clients[c].status \in {"starting", "recovering"}
        /\ clients' = [clients EXCEPT ![c].status = "connected",
                                      ![c].groups = [g \in Groups |-> "pending"]]
        /\ isConnected' = TRUE
        /\ isConnecting' = FALSE
        /\ connectionError' = ErrNone
        /\ UNCHANGED <<client, clientRef, attempts, now, config, lastMessage, resultLists, sendErrorShown, styleVars, voiceVars, lastConfirm, hookRefs, renderVars,
                       captureVars, dispatchVars, speakJobs>>

\* `await webPubSubClient.joinGroup(group)` of the 'connected' handler resolves
JoinResolves ==
    \E c \in Clients, g \in Groups :
        /\ clients[c].status = "connected"
        /\ clients[c].groups[g] = "pending"
        /\ clients' = [clients EXCEPT ![c].groups[g] = "joined"]
        /\ UNCHANGED <<isConnected, isConnecting, connectionError, client, clientRef,
                       attempts, now, config, lastMessage, resultLists, sendErrorShown, styleVars, voiceVars,
                       lastConfirm, hookRefs, renderVars, captureVars, dispatchVars,
                       speakJobs>>

\* a catch (joinError) that reports the failure as a connection error
JoinRejectsAsConnectionError ==
    \E c \in Clients, g \in Groups :
        /\ clients[c].groups[g] = "pending"
        /\ clients' = [clients EXCEPT ![c].groups[g] = "failed"]
        /\ connectionError' = ErrOther
        /\ UNCHANGED <<isConnected, isConnecting, client, clientRef,
                       attempts, now, config, lastMessage, resultLists, sendErrorShown, styleVars, voiceVars,
                       lastConfirm, hookRefs, renderVars, captureVars, dispatchVars,
                       speakJobs>>

\* it rejects: catch (joinError) logs
JoinRejects ==
    \E c \in Clients, g \in Groups :
        /\ clients[c].groups[g] = "pending"
        /\ clients' = [clients EXCEPT ![c].groups[g] = "failed"]
        /\ UNCHANGED <<isConnected, isConnecting, connectionError, client, clientRef,
                       attempts, now, config, lastMessage, resultLists, sendErrorShown, styleVars, voiceVars,
                       lastConfirm, hookRefs, renderVars, captureVars, dispatchVars,
                       speakJobs>>

\* webPubSubClient.on('disconnected'): the client itself keeps recovering
ClientDisconnected ==
    \E c \in Clients :
        /\ clients[c].status = "connected"
        /\ clients' = [clients EXCEPT ![c].status = "recovering", ![c].lost = TRUE]
        /\ isConnected' = FALSE
        /\ isConnecting' = FALSE
        /\ connectionError' = ErrLost
        /\ UNCHANGED <<client, clientRef, attempts, now, config, lastMessage, resultLists, sendErrorShown, styleVars, voiceVars, lastConfirm, hookRefs, renderVars,
                       captureVars, dispatchVars, speakJobs>>

\* a 'stopped' handler that forgets the ref
ClientStoppedKeepsRef ==
    \E c \in Clients :
        /\ clients[c].status \in {"connected", "recovering", "stopping"}
        /\ clients' = [clients EXCEPT ![c].status = "stopped"]
        /\ isConnected' = FALSE
        /\ isConnecting' = FALSE
        /\ client' = 0
        /\ UNCHANGED <<clientRef, connectionError, attempts, now, config, lastMessage, resultLists, sendErrorShown, styleVars, voiceVars,
                       lastConfirm, hookRefs, renderVars, captureVars, dispatchVars,
                       speakJobs>>

\* webPubSubClient.on('stopped')
ClientStopped ==
    \E c \in Clients :
        /\ clients[c].status \in {"connected", "recovering", "stopping"}
        /\ clients' = [clients EXCEPT ![c].status = "stopped"]
        /\ isConnected' = FALSE
        /\ isConnecting' = FALSE
        /\ client' = 0
        /\ clientRef' = 0
        /\ UNCHANGED <<connectionError, attempts, now, config, lastMessage, resultLists, sendErrorShown, styleVars, voiceVars, lastConfirm, hookRefs, renderVars,
                       captureVars, dispatchVars, speakJobs>>

\* `await webPubSubClient.start()` rejects: the catch of connectInternal
StartFails ==
    \E c \in Clients, kind \in FailureKinds :
        /\ clients[c].status = "starting"
        /\ clients' = [clients EXCEPT ![c].status = "failed"]
        /\ IF kind = "auth"
             THEN /\ connectionError' = ErrAuth
                  /\ isConnected' = TRUE
                  /\ isConnecting' = FALSE
             ELSE IF kind = "capacity"
             THEN /\ connectionError' = ErrCapacity
                  /\ isConnected' = TRUE
                  /\ isConnecting' = FALSE
             ELSE /\ connectionError' = ErrOther
                  /\ isConnecting' = FALSE
                  /\ UNCHANGED isConnected
        /\ UNCHANGED <<client, clientRef, attempts, now, config, lastMessage, resultLists, sendErrorShown, styleVars, voiceVars, lastConfirm, hookRefs, renderVars,
                       captureVars, dispatchVars, speakJobs>>

\* WebPubSubClient.stop(): a client that is up starts to close
Stop(c) ==
    [clients EXCEPT ![c].status =
        IF @ \in {"starting", "connected", "recovering"} THEN "stopping" ELSE @]

\* disconnect() up to its `await clientRef.current.stop()`; without a client
\* it runs to its end
Disconnect ==
    /\ mounted
    /\ isManualDisconnectRef' = TRUE
    /\ reconnectTimeoutRef' = 0
    /\ IF clientRef # 0
         THEN /\ disconnects < MaxDisconnects
              /\ disconnects' = disconnects + 1
              /\ clients' = Stop(clientRef)
              /\ UNCHANGED <<isConnected, isConnecting, connectionError, client,
                             clientRef, attempts>>
         ELSE /\ isConnected' = FALSE
              /\ isConnecting' = FALSE
              /\ client' = 0
              /\ UNCHANGED <<connectionError, clientRef, clients, attempts, disconnects>>
    /\ UNCHANGED <<now, config, lastMessage, resultLists, sendErrorShown, styleVars, voiceVars, lastConfirm, renderVars, captureVars,
                   dispatchVars, speakJobs>>

\* disconnect() after the await, whether stop() resolved or threw
DisconnectResumes ==
    /\ disconnects > 0
    /\ disconnects' = disconnects - 1
    /\ clientRef' = 0
    /\ isConnected' = FALSE
    /\ isConnecting' = FALSE
    /\ client' = 0
    /\ UNCHANGED <<connectionError, clients, attempts, isManualDisconnectRef,
                   reconnectTimeoutRef>>
    /\ UNCHANGED <<now, config, lastMessage, resultLists, sendErrorShown, styleVars, voiceVars, lastConfirm, renderVars, captureVars,
                   dispatchVars, speakJobs>>

\* ------------------------------------------------------- VoiceChatSimple

\* useEffect(..., [isConnected, isConnecting]): the side record
RefEffect ==
    IF ~mounted \/ isConnected # rendered.isConnected
                \/ isConnecting # rendered.isConnecting
      THEN [isConnected |-> isConnected, lastUpdate |-> now]
      ELSE connectionStateRef

\* useCallback(..., [isRecording]): startRecording, and with it the
\* processTranscript its handlers call, is replaced only by a render in which
\* isRecording changed
StartRecordingMemo ==
    IF ~mounted \/ isRecording # rendered.isRecording
      THEN [isRecording |-> isRecording, isConnected |-> isConnected]
      ELSE startRecordingClosure

\* the condition of the mount effect, on the values of the render it runs in
MountEffectConnects ==
    ~isConnected /\ ~isConnecting /\ connectionError = ErrNone

\* A render commits and its effects run.  `connect` is a new function on every
\* render (its dependency `config` is an object literal), so the mount effect
\* runs after every render.
Render ==
    /\ ~unmounted
    /\ ~mounted \/ Tracked # rendered
    /\ mounted' = TRUE
    /\ UNCHANGED unmounted
    /\ rendered' = Tracked
    /\ connectionStateRef' = RefEffect
    /\ startRecordingClosure' = StartRecordingMemo
    /\ IF MountEffectConnects
         THEN NumAttempts < MaxAttempts /\ ConnectBody("mount")
         ELSE UNCHANGED <<connVars, isManualDisconnectRef>>
    /\ UNCHANGED <<now, config, lastMessage, resultLists, sendErrorShown, styleVars, voiceVars, lastConfirm, reconnectTimeoutRef, disconnects, captureVars, dispatchVars, speakJobs>>

\* The component unmounts: the two cleanup effects of the hook call
\* disconnect() one after the other (each stops the client of clientRef and
\* waits), and the cleanup of the component stops the engine of
\* recognitionRef.  No render and no click follows.
Unmount ==
    /\ mounted
    /\ mounted' = FALSE
    /\ unmounted' = TRUE
    /\ isManualDisconnectRef' = TRUE
    /\ reconnectTimeoutRef' = 0
    /\ IF clientRef # 0
         THEN /\ disconnects + 2 <= MaxDisconnects
              /\ disconnects' = disconnects + 2
              /\ clients' = Stop(clientRef)
              /\ UNCHANGED <<isConnected, isConnecting, client>>
         ELSE /\ isConnected' = FALSE
              /\ isConnecting' = FALSE
              /\ client' = 0
              /\ UNCHANGED <<clients, disconnects>>
    /\ IF recognitionRef # 0
         THEN /\ engines' = [engines EXCEPT ![recognitionRef].status =
                                 IF @ = "started" THEN "stopping" ELSE @]
              /\ recognitionRef' = 0
         ELSE UNCHANGED <<engines, recognitionRef>>
    /\ UNCHANGED <<connectionError, clientRef, attempts, rendered, connectionStateRef,
                   startRecordingClosure, isRecording, isInitializingRef, probes,
                   restartTimers, now, config, lastMessage, resultLists, sendErrorShown, styleVars, voiceVars,
                   lastConfirm, dispatchVars, speakJobs>>

\* --------------------------------------------------------------- strings
\* A string is a sequence of tokens; " " is white space.
Blank == " "

RECURSIVE TrimStart(_)
TrimStart(s) ==
    IF s # <<>> /\ Head(s) = Blank THEN TrimStart(Tail(s)) ELSE s

RECURSIVE TrimEnd(_)
TrimEnd(s) ==
    IF s # <<>> /\ s[Len(s)] = Blank THEN TrimEnd(SubSeq(s, 1, Len(s) - 1)) ELSE s

\* String.prototype.trim
Trim(s) == TrimEnd(TrimStart(s))

\* String.prototype.includes, for a one-token needle
Includes(s, token) == \E i \in 1..Len(s) : s[i] = token

\* ------------------------------------------------ VoiceChatSimple: capture

\* what the recognition engine may deliver in one result event:
\* event.results, each result with isFinal and result[0].transcript
ResultEvents ==
    { <<[isFinal |-> TRUE, transcript |-> <<"report">>]>>,
      <<[isFinal |-> TRUE, transcript |-> <<"status">>]>>,
      <<[isFinal |-> FALSE, transcript |-> <<"report">>]>>,
      <<[isFinal |-> TRUE, transcript |-> <<Blank>>]>>,
      <<[isFinal |-> TRUE, transcript |-> <<"report">>],
        [isFinal |-> FALSE, transcript |-> <<"status">>]>> }

\* a loop that takes the transcript of every result, final or not
RECURSIVE AllTranscript(_)
AllTranscript(results) ==
    IF results = <<>> THEN <<>>
    ELSE Head(results).transcript \o AllTranscript(Tail(results))

\* the loop of recognition.onresult: the transcripts of the final results
RECURSIVE FinalTranscript(_)
FinalTranscript(results) ==
    IF results = <<>> THEN <<>>
    ELSE (IF Head(results).isFinal THEN Head(results).transcript ELSE <<>>)
             \o FinalTranscript(Tail(results))

\* the guard of startRecording, on the isRecording the memoized callback holds
StartRecordingGuard == startRecordingClosure.isRecording \/ isInitializingRef

\* startRecording up to `await navigator.mediaDevices.getUserMedia`
StartRecording ==
    IF StartRecordingGuard
      THEN UNCHANGED captureVars
      ELSE IF ~config.speechRecognition
      THEN UNCHANGED captureVars
      ELSE /\ Len(probes) < MaxProbes
           /\ Len(engines) + Len(probes) < MaxEngines
           /\ Cardinality(LiveEngines) + Len(probes) < MaxLiveEngines
           /\ isInitializingRef' = TRUE
           /\ probes' = Append(probes, startRecordingClosure)
           /\ UNCHANGED <<isRecording, recognitionRef, engines, restartTimers>>

\* stopRecording
StopRecording ==
    /\ IF recognitionRef # 0
         THEN /\ engines' = [engines EXCEPT ![recognitionRef].status =
                                 IF @ = "started" THEN "stopping" ELSE @]
              /\ recognitionRef' = 0
         ELSE UNCHANGED <<engines, recognitionRef>>
    /\ isRecording' = FALSE
    /\ isInitializingRef' = FALSE
    /\ UNCHANGED <<probes, restartTimers>>

\* the button: onClick={isRecording ? stopRecording : startRecording},
\* disabled={isProcessing || isTranscribing}, as the latest render drew it
Click ==
    /\ mounted
    /\ ~rendered.isTranscribing
    /\ IF rendered.isRecording
         THEN StopRecording /\ isTranscribing' = FALSE
         ELSE StartRecording /\ UNCHANGED isTranscribing
    /\ UNCHANGED <<now, config, lastMessage, resultLists, sendErrorShown, styleVars, voiceVars, lastConfirm, hookRefs, connVars, renderVars, lastProcessedRef, messages,
                   inflight, outbox, lastCall, lastSent, speakJobs>>

\* a click on a view that shows the current state: every render is done
ClickSettled == rendered = Tracked /\ Click

\* getUserMedia resolves: startRecording stops the tracks of the test stream
\* and runs on to recognition.start(); the engine keeps what the stream was
\* when it was started
ProbeGranted ==
    \E i \in 1..Len(probes) :
        /\ isRecording' = TRUE
        /\ engines' = Append(engines, [status |-> "started",
                                       stream |-> "stopped",
                                       isRecording |-> probes[i].isRecording,
                                       isConnected |-> probes[i].isConnected])
        /\ recognitionRef' = Len(engines) + 1
        /\ isInitializingRef' = FALSE
        /\ probes' = Remove(probes, i)
        /\ UNCHANGED <<restartTimers, now, config, lastMessage, resultLists, sendErrorShown, styleVars, voiceVars, lastConfirm, hookRefs, connVars, renderVars,
                       dispatchVars, speakJobs>>

\* getUserMedia rejects
ProbeDenied ==
    \E i \in 1..Len(probes) :
        /\ isInitializingRef' = FALSE
        /\ probes' = Remove(probes, i)
        /\ UNCHANGED <<isRecording, recognitionRef, engines, restartTimers, now,
                       config, lastMessage, resultLists, sendErrorShown, styleVars, voiceVars, lastConfirm, hookRefs, connVars, renderVars, dispatchVars, speakJobs>>

\* an onerror that leaves the listening flag set
EngineErrorStaysListening ==
    \E e \in Engines :
        /\ engines[e].status \in {"started", "stopping"}
        /\ engines' = [engines EXCEPT ![e].status = "failing"]
        /\ isTranscribing' = FALSE
        /\ isInitializingRef' = FALSE
        /\ UNCHANGED <<isRecording, recognitionRef, probes, restartTimers, now, config, lastMessage, resultLists, sendErrorShown, styleVars, voiceVars, lastConfirm, hookRefs,
                       connVars, renderVars, lastProcessedRef, messages, inflight,
                       outbox, lastCall, lastSent, speakJobs>>

\* recognition.onerror (the error code only selects the notice shown)
EngineError ==
    \E e \in Engines :
        /\ engines[e].status \in {"started", "stopping"}
        /\ engines' = [engines EXCEPT ![e].status = "failing"]
        /\ isRecording' = FALSE
        /\ isTranscribing' = FALSE
        /\ isInitializingRef' = FALSE
        /\ UNCHANGED <<recognitionRef, probes, restartTimers, now, config, lastMessage, resultLists, sendErrorShown, styleVars, voiceVars, lastConfirm, hookRefs,
                       connVars, renderVars, lastProcessedRef, messages, inflight,
                       outbox, lastCall, lastSent, speakJobs>>

\* an onend that reads the current isRecording instead of the captured one
EngineEndOnState ==
    \E e \in Engines :
        /\ engines[e].status \in {"started", "stopping", "failing"}
        /\ engines' = [engines EXCEPT ![e].status = "ended"]
        /\ IF isRecording /\ ~isInitializingRef
             THEN /\ restartTimers' = restartTimers \cup {e}
                  /\ UNCHANGED <<isRecording, isTranscribing, isInitializingRef>>
             ELSE /\ isRecording' = FALSE
                  /\ isTranscribing' = FALSE
                  /\ isInitializingRef' = FALSE
                  /\ UNCHANGED restartTimers
        /\ UNCHANGED <<recognitionRef, probes, now, config, lastMessage, resultLists, sendErrorShown, styleVars, voiceVars, lastConfirm,
                       hookRefs, connVars, renderVars, lastProcessedRef, messages,
                       inflight, outbox, lastCall, lastSent, speakJobs>>

\* recognition.onend, on the isRecording its closure holds
EngineEnd ==
    \E e \in Engines :
        /\ engines[e].status \in {"started", "stopping", "failing"}
        /\ engines' = [engines EXCEPT ![e].status = "ended"]
        /\ IF engines[e].isRecording /\ ~isInitializingRef
             THEN /\ restartTimers' = restartTimers \cup {e}
                  /\ UNCHANGED <<isRecording, isTranscribing, isInitializingRef>>
             ELSE /\ isRecording' = FALSE
                  /\ isTranscribing' = FALSE
                  /\ isInitializingRef' = FALSE
                  /\ UNCHANGED restartTimers
        /\ UNCHANGED <<recognitionRef, probes, now, config, lastMessage, resultLists, sendErrorShown, styleVars, voiceVars, lastConfirm, hookRefs, connVars, renderVars,
                       lastProcessedRef, messages, inflight, outbox, lastCall, lastSent, speakJobs>>

\* the timer of onend fires: start() on the engine the ref holds, if the
\* captured isRecording allows (start() on a running engine throws)
RestartTimerFires ==
    \E e \in restartTimers :
        /\ restartTimers' = restartTimers \ {e}
        /\ IF recognitionRef # 0 /\ engines[e].isRecording
             THEN engines' = [engines EXCEPT ![recognitionRef].status =
                                  IF @ = "ended" THEN "started" ELSE @]
             ELSE UNCHANGED engines
        /\ UNCHANGED <<isRecording, isInitializingRef, recognitionRef, probes, now,
                       config, lastMessage, resultLists, sendErrorShown, styleVars, voiceVars, lastConfirm, hookRefs, connVars, renderVars,
                       dispatchVars, speakJobs>>

\* ----------------------------------------------- VoiceChatSimple: dispatch

\* the duplicate check of processTranscript
IsDuplicate(transcript) ==
    /\ lastProcessedRef # NoTranscript
    /\ lastProcessedRef.text = Trim(transcript)
    /\ now - lastProcessedRef.timestamp < DedupWindowMs

\* the connection check of processTranscript, on the isConnected its closure holds
MaySend(stateConnected) ==
    LET actuallyConnected == stateConnected \/ connectionStateRef.isConnected
        recentConnection == now - connectionStateRef.lastUpdate < RecentWindowMs
    IN  actuallyConnected \/ recentConnection

\* a hook whose sendToGroup hands every send to the transport
SendNeverMock == FALSE

\* the hook's sendToGroup: without a client the send is simulated
SendIsMock == clientRef = 0

UserMessage(transcript, audio) ==
    [sender |-> "user", text |-> transcript, isAudio |-> audio]

\* the run of consecutive calls with one transcript: a call without a send
\* leaves the record of the run's send, a call with another transcript starts
\* a new run
Called(transcript, sends) ==
    IF sends THEN [text |-> Trim(transcript), sentAt |-> now]
    ELSE IF lastCall.text = Trim(transcript) THEN lastCall
    ELSE [text |-> Trim(transcript), sentAt |-> -1]

\* processTranscript up to the first point where it waits for the transport.
\* A simulated send resolves at once, so the rest of the run follows in the
\* same turn of the event loop.  setIsTranscribing(true) and the finally's
\* setIsTranscribing(false) of one turn leave false.
ProcessTranscript(transcript, stateConnected) ==
    IF Trim(transcript) = <<>>
      THEN UNCHANGED dispatchVars
    ELSE IF IsDuplicate(transcript)
      THEN /\ lastCall' = Called(transcript, FALSE)
           /\ UNCHANGED <<isTranscribing, lastProcessedRef, messages, inflight,
                          outbox, lastSent>>
    ELSE IF ~MaySend(stateConnected)
      THEN /\ lastProcessedRef' = [text |-> Trim(transcript), timestamp |-> now]
           /\ messages' = Append(messages, UserMessage(transcript, FALSE))
           /\ isTranscribing' = FALSE
           /\ lastCall' = Called(transcript, FALSE)
           /\ UNCHANGED <<inflight, outbox, lastSent>>
    ELSE IF SendIsMock
      THEN /\ lastProcessedRef' = [text |-> transcript, timestamp |-> now]
           /\ messages' = messages \o <<UserMessage(transcript, FALSE),
                                        UserMessage(transcript, TRUE)>>
           /\ isTranscribing' = FALSE
           /\ outbox' = Append(outbox, transcript)
           /\ lastCall' = Called(transcript, TRUE)
           /\ lastSent' = [text |-> transcript, timestamp |-> now]
           /\ UNCHANGED inflight
    ELSE /\ lastProcessedRef' = [text |-> Trim(transcript), timestamp |-> now]
         /\ messages' = Append(messages, UserMessage(transcript, FALSE))
         /\ isTranscribing' = TRUE
         /\ inflight' = Append(inflight, [text |-> transcript, client |-> clientRef])
         /\ outbox' = Append(outbox, transcript)
         /\ lastCall' = Called(transcript, TRUE)
         /\ UNCHANGED lastSent

\* the handler recognition.onresult of engine e, given event.results
OnResult(e, results) ==
    LET finalTranscript == FinalTranscript(results)
    IN  IF Trim(finalTranscript) # <<>>
          THEN ProcessTranscript(Trim(finalTranscript), engines[e].isConnected)
          ELSE UNCHANGED dispatchVars

\* recognition.onresult, for any result list (its history is not followed)
EngineResult ==
    \E e \in Engines, results \in ResultEvents :
        /\ engines[e].status \in {"started", "stopping"}
        /\ Len(outbox) < MaxSends
        /\ Len(messages) < MaxMessages
        /\ OnResult(e, results)
        /\ UNCHANGED <<now, config, lastMessage, resultLists, sendErrorShown, styleVars, voiceVars, lastConfirm, hookRefs, connVars, renderVars, captureVars, speakJobs>>

\* what the recognizer adds to a session: a final or an interim result
NewResults ==
    [isFinal : BOOLEAN, transcript : {<<"report">>, <<"status">>, <<Blank>>}]

\* the final results of a list: an interim result is replaced by what follows
RECURSIVE Finals(_)
Finals(results) ==
    IF results = <<>> THEN <<>>
    ELSE (IF Head(results).isFinal THEN <<Head(results)>> ELSE <<>>)
             \o Finals(Tail(results))

RECURSIVE TotalLen(_, _)
TotalLen(lists, n) == IF n = 0 THEN 0 ELSE Len(lists[n]) + TotalLen(lists, n - 1)

\* recognition.onresult in a session with continuous = true: event.results
\* holds every result of the session, the new one last
SessionResult ==
    \E e \in Engines, result \in NewResults :
        /\ engines[e].status \in {"started", "stopping"}
        /\ Len(outbox) < MaxSends
        /\ Len(messages) < MaxMessages
        /\ TotalLen(resultLists, MaxEngines + 1) < MaxResults
        /\ resultLists' = [resultLists EXCEPT ![e] = Append(Finals(@), result)]
        /\ OnResult(e, resultLists'[e])
        /\ UNCHANGED <<now, config, lastMessage, sendErrorShown, styleVars, voiceVars, lastConfirm, hookRefs, connVars,
                       renderVars, captureVars, speakJobs>>

\* the transport acknowledges the send: processTranscript runs on to its end
SendResolves ==
    \E i \in 1..Len(inflight) :
        /\ clients[inflight[i].client].status = "connected"
        /\ messages' = Append(messages, UserMessage(inflight[i].text, TRUE))
        /\ lastProcessedRef' = [text |-> inflight[i].text, timestamp |-> now]
        /\ isTranscribing' = FALSE
        /\ inflight' = Remove(inflight, i)
        /\ lastSent' = [text |-> inflight[i].text, timestamp |-> now]
        /\ UNCHANGED <<outbox, lastCall>>
        /\ UNCHANGED <<now, config, lastMessage, resultLists, sendErrorShown, styleVars, voiceVars, lastConfirm, hookRefs, connVars, renderVars, captureVars, speakJobs>>

\* a rejected send that is tried once more, without a notice
SendRejectsRetries ==
    \E i \in 1..Len(inflight) :
        /\ outbox' = Append(outbox, inflight[i].text)
        /\ UNCHANGED <<isTranscribing, inflight, sendErrorShown, lastProcessedRef,
                       messages, lastCall, lastSent, now, config, lastMessage, resultLists,
                       styleVars, voiceVars, lastConfirm, hookRefs, connVars, renderVars,
                       captureVars, speakJobs>>

\* a rejected send that is logged as sent all the same
SendRejectsLogged ==
    \E i \in 1..Len(inflight) :
        /\ isTranscribing' = FALSE
        /\ messages' = Append(messages, UserMessage(inflight[i].text, TRUE))
        /\ inflight' = Remove(inflight, i)
        /\ sendErrorShown' = TRUE
        /\ UNCHANGED <<lastProcessedRef, outbox, lastCall, lastSent, now,
                       config, lastMessage, resultLists, styleVars, voiceVars, lastConfirm, hookRefs, connVars,
                       renderVars, captureVars, speakJobs>>

\* a rejected send whose handler has no finally
SendRejectsKeepsFlag ==
    \E i \in 1..Len(inflight) :
        /\ inflight' = Remove(inflight, i)
        /\ sendErrorShown' = TRUE
        /\ UNCHANGED <<isTranscribing, lastProcessedRef, messages, outbox, lastCall, lastSent, now,
                       config, lastMessage, resultLists, styleVars, voiceVars, lastConfirm, hookRefs, connVars,
                       renderVars, captureVars, speakJobs>>

\* the transport rejects the send: the inner catch, then the finally
SendRejects ==
    \E i \in 1..Len(inflight) :
        /\ isTranscribing' = FALSE
        /\ inflight' = Remove(inflight, i)
        /\ sendErrorShown' = TRUE
        /\ UNCHANGED <<lastProcessedRef, messages, outbox, lastCall, lastSent, now,
                       config, lastMessage, resultLists, styleVars, voiceVars, lastConfirm, hookRefs, connVars,
                       renderVars, captureVars, speakJobs>>

\* ------------------------------------------------ VoiceChatSimple: inbound

\* a value carried in a field of a payload: undefined, a string, a number, or
\* a string that is the JSON text of {"data": inner}
Undefined == [type |-> "undefined", chars |-> <<>>, inner |-> <<>>]

Str(chars) == [type |-> "string", chars |-> chars, inner |-> <<>>]

Num(chars) == [type |-> "number", chars |-> chars, inner |-> <<>>]

\* JavaScript truthiness of a field value
Truthy(v) ==
    \/ v.type \in {"string", "json"} /\ v.chars # <<>>
    \/ v.type = "number" /\ v.chars # <<"0">>

NoFields == [message |-> Undefined, data |-> Undefined, text |-> Undefined]

Field(name, v) == IF v.type = "undefined" THEN <<>> ELSE <<name>> \o v.chars

\* JSON.stringify of an object with these fields (quotes and commas elided)
JsonText(fields) ==
    <<"{">> \o Field("message:", fields.message) \o Field("data:", fields.data)
        \o Field("text:", fields.text) \o <<"}">>

JsonStr(chars) ==
    [type |-> "json", chars |-> JsonText([NoFields EXCEPT !.data = Str(chars)]),
     inner |-> chars]

\* e.message.data of a group message.  kind "plain": the string text, which
\* JSON.parse rejects; kind "json": the string text, which is the JSON text
\* of an object with these fields; kind "object": an object with these
\* fields; kind "number": a number (it arises as the value of a field)
PlainPayload(chars) == [kind |-> "plain", text |-> chars, fields |-> NoFields]

JsonPayload(fields) == [kind |-> "json", text |-> JsonText(fields), fields |-> fields]

ObjectPayload(fields) == [kind |-> "object", text |-> <<>>, fields |-> fields]

\* the payloads of the everyday traffic: a plain string, or the JSON text of
\* {"data": text}
Payloads ==
    {PlainPayload(t) : t \in {<<"report">>, <<"status">>, <<"hello">>}}
        \cup {JsonPayload([NoFields EXCEPT !.data = Str(t)]) :
                 t \in {<<"report">>, <<"status">>, <<"hello">>}}

\* every shape of payload: strings (the empty one too), envelopes and
\* objects whose fields are absent, strings, numbers or JSON strings
FieldValues ==
    {Undefined, Str(<<"report">>), Num(<<"42">>), JsonStr(<<"status">>)}

PayloadShapes ==
    {PlainPayload(t) : t \in {<<>>, <<"report">>, <<"hello">>}}
        \cup {JsonPayload([NoFields EXCEPT !.data = d, !.text = t]) :
                 d \in FieldValues, t \in FieldValues}
        \cup {ObjectPayload([message |-> m, data |-> d, text |-> t]) :
                 m \in FieldValues, d \in FieldValues, t \in FieldValues}

IsString(p) == p.kind \in {"plain", "json"}

\* the value v of a field, as a payload of its own
AsPayload(v) ==
    CASE v.type = "json" -> JsonPayload([NoFields EXCEPT !.data = Str(v.inner)])
      [] v.type = "number" -> [kind |-> "number", text |-> v.chars, fields |-> NoFields]
      [] OTHER -> PlainPayload(v.chars)

\* the guard `message.payload` of handleWebSocketMessage
HasPayload(p) == ~(IsString(p) /\ p.text = <<>>)

MessageDataIsPayload(p) == p

\* messageData = message.payload.message || message.payload.data ||
\* message.payload (a string has neither field)
MessageData(p) ==
    IF p.kind = "object" /\ Truthy(p.fields.message) THEN AsPayload(p.fields.message)
    ELSE IF p.kind = "object" /\ Truthy(p.fields.data) THEN AsPayload(p.fields.data)
    ELSE p

\* the echo check of handleWebSocketMessage: messageData, when a string, is
\* compared with the text of lastProcessedRef
IsEcho(p) ==
    /\ lastProcessedRef # NoTranscript
    /\ IsString(MessageData(p))
    /\ MessageData(p).text = lastProcessedRef.text
    /\ now - lastProcessedRef.timestamp < EchoWindowMs

\* the 'looks like user input' check (the strings here are all short)
LooksLikeUserInput(p) ==
    IsString(MessageData(p)) /\ Includes(MessageData(p).text, "hello")

\* data || text || otherwise, as a value
FirstTruthy(fields, otherwise) ==
    IF Truthy(fields.data) THEN fields.data
    ELSE IF Truthy(fields.text) THEN fields.text
    ELSE otherwise

\* the value handleWebSocketMessage leaves in messageText: of a string,
\* parsedData.data, else parsedData.text, else the string, and the string
\* when JSON.parse throws; of an object, data || text || JSON.stringify; of
\* anything else, String(messageData)
Extracted(p) ==
    LET md == MessageData(p) IN
    CASE md.kind = "json" -> FirstTruthy(md.fields, Str(md.text))
      [] md.kind = "object" -> FirstTruthy(md.fields, Str(JsonText(md.fields)))
      [] OTHER -> Str(md.text)

\* the characters of messageText
MessageText(p) == Extracted(p).chars

\* messageText.substring exists only on a string
SubstringThrows(p) == Extracted(p).type \notin {"string", "json"}

ReceivedMessage(text) == [sender |-> "cortana", text |-> text, isAudio |-> FALSE]

\* a speakMessage call, suspended at the import of the speech SDK
SpeakCall(text) == [text |-> text, stage |-> "importing", spoken |-> <<>>]

\* the two early returns of handleWebSocketMessage
Suppresses(p) == IsEcho(p) \/ LooksLikeUserInput(p)

\* a handler that puts the newest message first
HandleWebSocketMessageNewestFirst(c, p) ==
    /\ clients[c].status = "connected"
    /\ Len(messages) < MaxMessages
    /\ Len(speakJobs) < MaxSpeakJobs
    /\ IF ~HasPayload(p) \/ Suppresses(p)
         THEN UNCHANGED <<messages, speakJobs>>
         ELSE /\ messages' = <<ReceivedMessage(MessageText(p))>> \o messages
              /\ speakJobs' = IF SubstringThrows(p)
                                THEN speakJobs
                                ELSE Append(speakJobs, SpeakCall(MessageText(p)))
    /\ UNCHANGED <<isTranscribing, lastProcessedRef, inflight, outbox, lastCall, lastSent,
                   now, config, resultLists, sendErrorShown, styleVars, voiceVars, lastConfirm, hookRefs, connVars, renderVars, captureVars>>

\* handleWebSocketMessage for the payload p delivered by client c: the
\* TypeError of messageText.substring is caught after the append and before
\* speakMessage
HandleWebSocketMessage(c, p) ==
    /\ clients[c].status = "connected"
    /\ Len(messages) < MaxMessages
    /\ Len(speakJobs) < MaxSpeakJobs
    /\ IF ~HasPayload(p) \/ Suppresses(p)
         THEN UNCHANGED <<messages, speakJobs>>
         ELSE /\ messages' = Append(messages, ReceivedMessage(MessageText(p)))
              /\ speakJobs' = IF SubstringThrows(p)
                                THEN speakJobs
                                ELSE Append(speakJobs, SpeakCall(MessageText(p)))
    /\ UNCHANGED <<isTranscribing, lastProcessedRef, inflight, outbox, lastCall, lastSent,
                   now, config, resultLists, sendErrorShown, styleVars, voiceVars, lastConfirm, hookRefs, connVars, renderVars, captureVars>>

\* a handler that leaves out the test of the type
HandleMessageOfAnyType(type, c, p) == HandleWebSocketMessage(c, p)

\* handleWebSocketMessage for a message of the given type: its body runs for
\* a 'group-message' only
HandleMessage(type, c, p) ==
    IF type = "group-message"
      THEN HandleWebSocketMessage(c, p)
      ELSE /\ clients[c].status = "connected"
           /\ UNCHANGED <<messages, speakJobs, isTranscribing, lastProcessedRef, inflight,
                          outbox, lastCall, lastSent, now, config, resultLists,
                          sendErrorShown, styleVars, voiceVars, lastConfirm, hookRefs,
                          connVars, renderVars, captureVars>>

\* a handler of the hook: setLastMessage(message), onMessage(message)
Receive(type, c, p) == lastMessage' = [type |-> type] /\ HandleMessage(type, c, p)

\* webPubSubClient.on('group-message') -> onMessage
GroupMessage == \E c \in Clients, p \in Payloads : Receive("group-message", c, p)

\* the same delivery, of a payload of any shape
GroupMessageOfAnyShape ==
    \E c \in Clients, p \in PayloadShapes : Receive("group-message", c, p)

\* webPubSubClient.on('server-message') -> onMessage
ServerMessage ==
    \E c \in Clients, p \in Payloads : Receive("server-message", c, p)

\* -------------------------------------------------- VoiceChatSimple: speech

\* window.speechSynthesis.cancel(): whatever is being spoken stops
Cancel(jobs) ==
    [k \in 1..Len(jobs) |->
        IF jobs[k].stage = "speaking" THEN [jobs[k] EXCEPT !.stage = "cancelled"]
        ELSE jobs[k]]

\* a catch that never reaches for the browser's synthesis
FallbackSilent(j) == [speakJobs EXCEPT ![j].stage = "silent"]

\* the catch of speakMessage
Fallback(j) ==
    IF config.speechSynthesis
      THEN [Cancel(speakJobs) EXCEPT ![j].stage = "scheduled"]
      ELSE [speakJobs EXCEPT ![j].stage = "silent"]

\* speakMessage from the import to the end of its try or of its catch: the
\* try throws when the import or the SDK set-up fails and when the speech key
\* or region is missing
SpeakSetup ==
    \E j \in 1..Len(speakJobs), ok \in BOOLEAN :
        /\ speakJobs[j].stage = "importing"
        /\ speakJobs' = IF ok /\ config.speechKey
                          THEN [speakJobs EXCEPT ![j].stage = "cloud"]
                          ELSE Fallback(j)
        /\ UNCHANGED <<now, config, lastMessage, resultLists, sendErrorShown, styleVars, voiceVars, lastConfirm, hookRefs, connVars, renderVars, captureVars, dispatchVars>>

\* the setTimeout(..., 100) of the fallback: speechSynthesis.speak(utterance)
SpeakLocalTimer ==
    \E j \in 1..Len(speakJobs) :
        /\ speakJobs[j].stage = "scheduled"
        /\ speakJobs' = [speakJobs EXCEPT ![j].stage = "speaking",
                                          ![j].spoken = speakJobs[j].text]
        /\ UNCHANGED <<now, config, lastMessage, resultLists, sendErrorShown, styleVars, voiceVars, lastConfirm, hookRefs, connVars, renderVars, captureVars, dispatchVars>>

\* utterance.onend
UtteranceEnd ==
    \E j \in 1..Len(speakJobs) :
        /\ speakJobs[j].stage = "speaking"
        /\ speakJobs' = [speakJobs EXCEPT ![j].stage = "ended"]
        /\ UNCHANGED <<now, config, lastMessage, resultLists, sendErrorShown, styleVars, voiceVars, lastConfirm, hookRefs, connVars, renderVars, captureVars, dispatchVars>>

\* what speakSsmlAsync reports: its completion callback with the reason
\* SynthesizingAudioCompleted or with another reason, or its error callback
CloudOutcomes == {"completed", "failed", "error"}

\* the callbacks of synthesizer.speakSsmlAsync: each only logs and closes
SpeakCloudDone ==
    \E j \in 1..Len(speakJobs), outcome \in CloudOutcomes :
        /\ speakJobs[j].stage = "cloud"
        /\ speakJobs' = [speakJobs EXCEPT ![j].stage =
                             IF outcome = "completed" THEN "cloud-done"
                             ELSE "cloud-failed"]
        /\ UNCHANGED <<now, config, lastMessage, resultLists, sendErrorShown, styleVars, voiceVars, lastConfirm, hookRefs, connVars, renderVars, captureVars, dispatchVars>>

\* time passes: the instants kept are 0, TickMs, 3 TickMs, ..., so that a
\* time stamp can be younger and older than a window with few instants
Tick ==
    /\ now < MaxTime
    /\ now' = IF now = 0 THEN TickMs ELSE 3 * now
    /\ UNCHANGED <<config, lastMessage, resultLists, sendErrorShown, styleVars, voiceVars, lastConfirm, hookRefs, connVars, renderVars, captureVars, dispatchVars,
                   speakJobs>>

\* ------------------------------------------------------- specifications

\* ------------------------------------------------------------------
\* VoiceChatSimple: the style classifier of received text

\* the characters the sentence split consumes
Terminators == {".", "!", "?"}

\* String.prototype.toLowerCase, token by token
Lower(token) ==
    CASE token = "Good" -> "good"
      [] token = "The" -> "the"
      [] OTHER -> token

\* String.prototype.toLowerCase left out: the text as it came
KeepCase(s) == s

ToLowerCase(s) == [i \in 1..Len(s) |-> Lower(s[i])]

\* the keywords a token holds as a substring ('am' lies within 'amazing')
SubWords(token) ==
    IF token = "amazing" THEN {"amazing", "am"} ELSE {token}

\* String.prototype.includes for a needle of one or more tokens
IncludesWords(s, needle) ==
    \E i \in 1..(Len(s) - Len(needle) + 1) :
        \A k \in 1..Len(needle) : needle[k] \in SubWords(s[i + k - 1])

IncludesAny(s, needles) == \E needle \in needles : IncludesWords(s, needle)

GreetingWords ==
    {<<"good", Blank, "morning">>, <<"hello">>, <<"have", Blank, "a", Blank, "great">>,
     <<"wishing", Blank, "you">>, <<"hope", Blank, "you">>, <<"enjoy">>}
WeatherWords ==
    {<<"weather">>, <<"temperature">>, <<"rain">>, <<"cloudy">>, <<"sunny">>,
     <<"degrees">>}
ScheduleWords ==
    {<<"schedule">>, <<"appointment">>, <<"meeting">>, <<"office">>,
     <<"plan", Blank, "to", Blank, "leave">>}
CautionWords ==
    {<<"remember">>, <<"don't", Blank, "forget">>, <<"make", Blank, "sure">>,
     <<"important">>, <<"please">>, <<"should">>}
SuggestionWords ==
    {<<"suggest">>, <<"recommend">>, <<"might">>, <<"consider">>, <<"try">>}
HelpWords ==
    {<<"let", Blank, "me", Blank, "know">>, <<"if", Blank, "you", Blank, "need">>,
     <<"help">>, <<"anything", Blank, "else">>, <<"feel", Blank, "free">>}
EnthusiasmWords ==
    {<<"great">>, <<"excellent">>, <<"wonderful">>, <<"perfect">>, <<"amazing">>}

\* the index of the first terminator of s, or 0
RECURSIVE FirstTerminator(_, _)
FirstTerminator(s, i) ==
    IF i > Len(s) THEN 0
    ELSE IF s[i] \in Terminators THEN i
    ELSE FirstTerminator(s, i + 1)

\* the index of the last terminator of the run that starts at i
RECURSIVE RunEnd(_, _)
RunEnd(s, i) ==
    IF i < Len(s) /\ s[i + 1] \in Terminators THEN RunEnd(s, i + 1) ELSE i

\* text.split(/[.!?]+/)
RECURSIVE Split(_)
Split(s) ==
    LET i == FirstTerminator(s, 1)
    IN  IF i = 0 THEN <<s>>
        ELSE <<SubSeq(s, 1, i - 1)>> \o Split(SubSeq(s, RunEnd(s, i) + 1, Len(s)))

NotBlank(s) == Trim(s) # <<>>

\* the callback of sentences.map: the first return that applies
StyledPart(sentence) ==
    LET trimmedSentence == Trim(sentence)
        finalSentence ==
            trimmedSentence \o
                (IF trimmedSentence[Len(trimmedSentence)] \in Terminators
                 THEN <<>> ELSE <<".">>)
        lowerSentence == ToLowerCase(trimmedSentence)
        Part(style, degree) ==
            [text |-> finalSentence, style |-> style, degree |-> degree]
    IN  IF IncludesAny(lowerSentence, GreetingWords) THEN Part("cheerful", "1.4")
        ELSE IF IncludesAny(lowerSentence, WeatherWords) THEN Part("friendly", "1.2")
        ELSE IF \/ IncludesAny(lowerSentence, ScheduleWords)
                \/ /\ IncludesWords(lowerSentence, <<"time">>)
                   /\ \/ IncludesWords(lowerSentence, <<"am">>)
                      \/ IncludesWords(lowerSentence, <<"pm">>)
             THEN Part("assistant", "1.1")
        ELSE IF IncludesAny(lowerSentence, CautionWords) THEN Part("empathetic", "1.3")
        ELSE IF IncludesAny(lowerSentence, SuggestionWords) THEN Part("hopeful", "1.2")
        ELSE IF IncludesAny(lowerSentence, HelpWords) THEN Part("friendly", "1.4")
        ELSE IF IncludesAny(lowerSentence, EnthusiasmWords) THEN Part("excited", "1.3")
        ELSE Part("friendly", "1.2")

\* sentences.map(...) over the sentences the filter keeps
StyledParts(text) ==
    LET sentences == SelectSeq(Split(text), NotBlank)
    IN  [k \in 1..Len(sentences) |-> StyledPart(sentences[k])]

NotStyled == [done |-> FALSE, styledParts |-> <<>>, mixedStyles |-> FALSE]

\* speakReceivedMessageWithDynamicStyles(styleText), up to its hand-over to
\* speakMessageWithMixedStyles
SpeakReceivedMessageWithDynamicStyles ==
    /\ ~styleRun.done
    /\ styleRun' = [done |-> TRUE, styledParts |-> StyledParts(styleText),
                    mixedStyles |-> Len(StyledParts(styleText)) > 0]
    /\ UNCHANGED <<now, config, lastMessage, resultLists, sendErrorShown, voiceVars, styleText, textParts, ssmlCalls, lastConfirm, hookRefs, connVars, renderVars, captureVars,
                   dispatchVars, speakJobs>>

\* the received texts: up to MaxPhrases phrases, each with what ends it
Phrases ==
    {<<"Good", Blank, "morning">>,
     <<Blank, "The", Blank, "weather", Blank, "is", Blank, "sunny">>,
     <<"enjoy", Blank, "the", Blank, "rain">>,
     <<"time", Blank, "flies">>,
     <<"amazing", Blank, "time">>,
     <<"please", Blank, "remember">>,
     <<"try", Blank, "this">>,
     <<"let", Blank, "me", Blank, "know">>,
     <<"great", Blank, "news">>,
     <<"have", Blank, "a", Blank, "great", Blank, "day">>,
     <<"ok">>,
     <<Blank>>}

PhraseEnds == {<<>>, <<".">>, <<"!">>, <<"?", "!">>}

RECURSIVE TextsOf(_)
TextsOf(n) ==
    IF n = 0 THEN {<<>>}
    ELSE LET shorter == TextsOf(n - 1)
         IN  shorter \cup {t \o p \o e : t \in shorter, p \in Phrases, e \in PhraseEnds}

Texts == TextsOf(MaxPhrases)

InitVoice == voices = <<>> /\ voicePreference = "en-US-JennyNeural" /\ utterances = <<>>

InitSpeech == textParts = <<>> /\ ssmlCalls = <<>> /\ InitVoice

Init ==
    /\ InitState
    /\ styleText = <<>> /\ styleRun = NotStyled /\ InitSpeech
    /\ lastConfirm = "none"

InitStyle ==
    /\ InitState
    /\ config.clientUrl /\ config.speechRecognition
    /\ config.speechKey /\ config.speechSynthesis
    /\ styleText \in Texts
    /\ styleRun = NotStyled
    /\ InitSpeech
    /\ lastConfirm = "none"

\* ------------------------------------- speakMessageWithMixedStyles

\* a part without a style or without a degree
Missing == ""

\* a style block that takes style and degree as they come
StyleBlockAsGiven(part) ==
    <<"<express-as", part.style, part.degree, ">">> \o part.text \o <<"</express-as>">>

\* the template of the map: part.style || 'friendly', part.degree || '1.3'
StyleBlock(part) ==
    <<"<express-as",
      IF part.style = Missing THEN "friendly" ELSE part.style,
      IF part.degree = Missing THEN "1.3" ELSE part.degree,
      ">">> \o part.text \o <<"</express-as>">>

\* Array.prototype.join(' ') of the strings of a list
RECURSIVE Join(_)
Join(strings) ==
    IF strings = <<>> THEN <<>>
    ELSE IF Len(strings) = 1 THEN strings[1]
    ELSE strings[1] \o <<Blank>> \o Join(Tail(strings))

\* the SSML document: the style blocks inside one voice element
Ssml(parts) ==
    <<"<speak>", "<voice>">> \o Join([i \in 1..Len(parts) |-> StyleBlock(parts[i])])
        \o <<"</voice>", "</speak>">>

\* the text of the fallback
CombinedText(parts) == Join([i \in 1..Len(parts) |-> parts[i].text])

\* speakMessageWithMixedStyles(textParts): the try throws when the import or
\* the SDK set-up fails and when the speech key or region is missing, and
\* its catch calls speakMessage; otherwise speakSsmlAsync is called
SpeakMessageWithMixedStyles ==
    /\ ssmlCalls = <<>> /\ speakJobs = <<>>
    /\ \E ok \in BOOLEAN :
           IF ok /\ config.speechKey
             THEN /\ ssmlCalls' = Append(ssmlCalls, Ssml(textParts))
                  /\ UNCHANGED speakJobs
             ELSE /\ speakJobs' = Append(speakJobs, SpeakCall(CombinedText(textParts)))
                  /\ UNCHANGED ssmlCalls
    /\ UNCHANGED <<now, config, lastMessage, resultLists, sendErrorShown, voiceVars, styleText, styleRun, textParts,
                   lastConfirm, hookRefs, connVars, renderVars, captureVars, dispatchVars>>

\* the parts: a text with or without a style and a degree
Parts ==
    [text : {<<"good", "morning">>, <<"done">>}, style : {Missing, "cheerful"},
     degree : {Missing, "1.5"}]

PartLists == UNION {[1..n -> Parts] : n \in 0..MaxParts}

InitMixed ==
    /\ InitState
    /\ styleText = <<>> /\ styleRun = NotStyled
    /\ textParts \in PartLists /\ ssmlCalls = <<>> /\ InitVoice
    /\ lastConfirm = "none"

NextMixed == SpeakMessageWithMixedStyles

SpecMixed == InitMixed /\ [][NextMixed]_vars

\* ------------------------------------------------------------ AIService
\* Here a string is the sequence of its characters.

\* String.prototype.toLowerCase, character by character
LowerChar(ch) ==
    CASE ch = "A" -> "a" [] ch = "F" -> "f" [] ch = "G" -> "g"
      [] ch = "M" -> "m" [] ch = "W" -> "w" [] OTHER -> ch

LowerCase(s) == [i \in 1..Len(s) |-> LowerChar(s[i])]

\* String.prototype.includes
IncludesString(s, needle) ==
    \E i \in 0..(Len(s) - Len(needle)) : SubSeq(s, i + 1, i + Len(needle)) = needle

\* voice.lang.startsWith('en')
StartsWithEn(lang) == Len(lang) >= 2 /\ SubSeq(lang, 1, 2) = <<"e", "n">>

\* the gender of voiceMap, "" for an id it does not hold
VoiceMap(id) ==
    CASE id \in {"en-US-AriaNeural", "en-US-JennyNeural", "en-US-AmberNeural",
                 "en-US-AnaNeural", "en-US-CoraNeural", "en-US-ElizabethNeural"}
            -> "female"
      [] id \in {"en-US-GuyNeural", "en-US-DavisNeural", "en-US-BrandonNeural",
                 "en-US-ChristopherNeural"}
            -> "male"
      [] OTHER -> ""

FemaleMarkers ==
    {<<"f", "e", "m", "a", "l", "e">>, <<"w", "o", "m", "a", "n">>,
     <<"a", "r", "i", "a">>, <<"j", "e", "n", "n", "y">>,
     <<"a", "m", "b", "e", "r">>, <<"a", "n", "a">>, <<"c", "o", "r", "a">>,
     <<"e", "l", "i", "z", "a", "b", "e", "t", "h">>}

MaleMarkers ==
    {<<"m", "a", "l", "e">>, <<"m", "a", "n">>, <<"g", "u", "y">>,
     <<"d", "a", "v", "i", "s">>, <<"b", "r", "a", "n", "d", "o", "n">>,
     <<"c", "h", "r", "i", "s", "t", "o", "p", "h", "e", "r">>}

\* the test of the find for the gender match
GenderMatch(voice, gender) ==
    /\ \E marker \in (IF gender = "female" THEN FemaleMarkers ELSE MaleMarkers) :
           IncludesString(LowerCase(voice.name), marker)
    /\ StartsWithEn(voice.lang)

\* null
NoVoice == [name |-> <<>>, lang |-> <<>>]

\* Array.prototype.find: the first voice of the list in the set, or null
RECURSIVE Find(_, _)
Find(list, wanted) ==
    IF list = <<>> THEN NoVoice
    ELSE IF Head(list) \in wanted THEN Head(list)
    ELSE Find(Tail(list), wanted)

Range(list) == {list[i] : i \in 1..Len(list)}

\* a fallback that takes the first voice of any language
AnyVoice(list) == Find(list, Range(list))

AnyEnglish(list) == Find(list, {v \in Range(list) : StartsWithEn(v.lang)})

\* findPreferredVoice
FindPreferredVoice(list, id) ==
    IF VoiceMap(id) = "" THEN AnyEnglish(list)
    ELSE LET genderMatch == Find(list, {v \in Range(list) : GenderMatch(v, VoiceMap(id))})
         IN  IF genderMatch # NoVoice THEN genderMatch ELSE AnyEnglish(list)

\* speakText, where window has speechSynthesis: the utterance is given to
\* speechSynthesis.speak with the voice found or, without one, with none set
SpeakText ==
    /\ utterances = <<>>
    /\ config.speechSynthesis
    /\ utterances' = Append(utterances,
                            [voice |-> FindPreferredVoice(voices, voicePreference)])
    /\ UNCHANGED <<voices, voicePreference, now, config, lastMessage, resultLists, sendErrorShown,
                   styleVars, lastConfirm, hookRefs, connVars, renderVars, captureVars,
                   dispatchVars, speakJobs>>

\* the local voices: names that hold a feminine marker, a masculine marker,
\* or none, in English and in French
English == <<"e", "n", "-", "U", "S">>

French == <<"f", "r", "-", "F", "R">>

LocalVoices ==
    {[name |-> <<"Z", "i", "r", "a", " ", "F", "e", "m", "a", "l", "e">>, lang |-> English],
     [name |-> <<"G", "u", "y">>, lang |-> English],
     [name |-> <<"A", "r", "i", "a">>, lang |-> English],
     [name |-> <<"W", "o", "m", "a", "n">>, lang |-> English],
     [name |-> <<"A", "l", "e", "x">>, lang |-> English],
     [name |-> <<"M", "a", "l", "e">>, lang |-> French],
     [name |-> <<"A", "r", "i", "a">>, lang |-> French]}

VoiceLists == UNION {[1..n -> LocalVoices] : n \in 0..MaxVoices}

VoicePreferences == {"en-US-JennyNeural", "en-US-GuyNeural", "en-GB-RyanNeural"}

InitService ==
    /\ InitState
    /\ styleText = <<>> /\ styleRun = NotStyled
    /\ textParts = <<>> /\ ssmlCalls = <<>>
    /\ voices \in VoiceLists
    /\ voicePreference \in VoicePreferences
    /\ utterances = <<>>
    /\ lastConfirm = "none"

NextService == SpeakText

SpecService == InitService /\ [][NextService]_vars

NextStyle == SpeakReceivedMessageWithDynamicStyles

SpecStyle == InitStyle /\ [][NextStyle]_vars

\* ------------------------------------------------------------------
\* ConversationHistory: the other user of the Message Log

\* the setter of useLocalStorage('cortana-messages'): the stored value is the
\* one every user of the key reads
SetStoredMessages(value) == messages' = value

\* clearHistory that skips the confirmation
ClearHistoryUnasked ==
    /\ messages # <<>>
    /\ \E answer \in {"accepted", "declined"} :
           /\ lastConfirm' = answer
           /\ SetStoredMessages(<<>>)
    /\ UNCHANGED <<now, config, lastMessage, resultLists, sendErrorShown, styleVars, voiceVars, hookRefs, connVars, renderVars, captureVars,
                   isTranscribing, lastProcessedRef, inflight, outbox, lastCall,
                   lastSent, speakJobs>>

\* clearHistory, behind a button that is disabled while the log is empty
ClearHistory ==
    /\ messages # <<>>
    /\ \E answer \in {"accepted", "declined"} :
           /\ lastConfirm' = answer
           /\ IF answer = "accepted"
                THEN SetStoredMessages(<<>>)
                ELSE UNCHANGED messages
    /\ UNCHANGED <<now, config, lastMessage, resultLists, sendErrorShown, styleVars, voiceVars, hookRefs, connVars, renderVars, captureVars,
                   isTranscribing, lastProcessedRef, inflight, outbox, lastCall,
                   lastSent, speakJobs>>

NextConn ==
    \/ Render
    \/ Connect
    \/ ClientConnected
    \/ ClientDisconnected
    \/ ClientStopped
    \/ StartFails

SpecConn == Init /\ [][NextConn]_vars

\* the hook with the joins of the 'connected' handler
NextJoin ==
    \/ Render
    \/ ClientConnected
    \/ ClientDisconnected
    \/ ClientStopped
    \/ JoinResolves
    \/ JoinRejects

\* a client is created only with a client URL
InitJoin == Init /\ config.clientUrl

SpecJoin == InitJoin /\ [][NextJoin]_vars

\* the session up to and after the unmount of the component
NextUnmount ==
    \/ Render
    \/ ClickSettled
    \/ ProbeGranted
    \/ ProbeDenied
    \/ EngineEnd
    \/ ClientConnected
    \/ ClientStopped
    \/ Unmount
    \/ DisconnectResumes

SpecUnmount == InitJoin /\ [][NextUnmount]_vars

\* the hook with a user that also disconnects
NextDisconnect ==
    \/ Render
    \/ Connect
    \/ ClientConnected
    \/ ClientDisconnected
    \/ ClientStopped
    \/ StartFails
    \/ Disconnect
    \/ DisconnectResumes

SpecDisconnect == Init /\ [][NextDisconnect]_vars

NextCapture ==
    \/ Render
    \/ Click
    \/ ProbeGranted
    \/ ProbeDenied
    \/ EngineError
    \/ EngineEnd

SpecCapture == Init /\ [][NextCapture]_vars

\* capture when the user clicks only once the view is up to date
NextCaptureSettled ==
    \/ Render
    \/ ClickSettled
    \/ ProbeGranted
    \/ ProbeDenied
    \/ EngineError
    \/ EngineEnd

SpecCaptureSettled == Init /\ [][NextCaptureSettled]_vars

\* speech output takes no part in a dispatch: its configuration is fixed
InitDispatch == Init /\ config.speechKey /\ config.speechSynthesis

NextDispatch ==
    \/ Render
    \/ ClientConnected
    \/ StartFails
    \/ Click
    \/ ProbeGranted
    \/ EngineResult
    \/ SendResolves
    \/ SendRejects
    \/ Tick

SpecDispatch == InitDispatch /\ [][NextDispatch]_vars

\* dispatch with and without a client, at one instant
NextMock ==
    \/ Render
    \/ ClientConnected
    \/ StartFails
    \/ Click
    \/ ProbeGranted
    \/ EngineResult
    \/ SendResolves
    \/ SendRejects

SpecMock == InitDispatch /\ [][NextMock]_vars

NextInbound ==
    \/ Render
    \/ ClientConnected
    \/ Click
    \/ ProbeGranted
    \/ EngineResult
    \/ SendResolves
    \/ SendRejects
    \/ GroupMessage
    \/ Tick

\* a message arrives only over a client, and a transcript only from an engine
InitInbound == InitDispatch /\ config.clientUrl /\ config.speechRecognition

SpecInbound == InitInbound /\ [][NextInbound]_vars

\* the log under its two users, at one instant
NextHistory ==
    \/ Render
    \/ ClientConnected
    \/ Click
    \/ ProbeGranted
    \/ EngineResult
    \/ SendResolves
    \/ ClearHistory

SpecHistory == InitInbound /\ [][NextHistory]_vars

\* capture sessions whose result lists are followed, at one instant
NextSession ==
    \/ Render
    \/ ClientConnected
    \/ Click
    \/ ProbeGranted
    \/ SessionResult
    \/ SendResolves

SpecSession == InitInbound /\ [][NextSession]_vars

NextShapes ==
    \/ Render
    \/ ClientConnected
    \/ GroupMessageOfAnyShape
    \/ ServerMessage

SpecShapes == InitInbound /\ [][NextShapes]_vars

\* the Message Log with its three writers: the dispatch of a transcript, the
\* handling of an inbound message and the History Viewer; a further
\* transcript or inbound message is followed while few were sent and spoken
ShortLog == Len(outbox) + Len(speakJobs) < MaxLogged

NextLog ==
    \/ Render
    \/ ClientConnected
    \/ ClickSettled
    \/ ProbeGranted
    \/ ShortLog /\ EngineResult
    \/ SendResolves
    \/ ShortLog /\ GroupMessage
    \/ ClearHistory

SpecLog == InitInbound /\ [][NextLog]_vars

\* the dispatch with a clock, so that a transcript can also come when the
\* last change of the connection is no longer recent
NextFlag ==
    \/ Render
    \/ ClientConnected
    \/ ClickSettled
    \/ ProbeGranted
    \/ ShortLog /\ EngineResult
    \/ SendResolves
    \/ SendRejects
    \/ Tick

\* sendToGroup returns: every pending send is resolved or rejected in the end
SendReturns == WF_vars(SendResolves \/ SendRejects)

SpecFlag == InitInbound /\ [][NextFlag]_vars /\ SendReturns

NextSpeak ==
    \/ Render
    \/ ClientConnected
    \/ GroupMessage
    \/ SpeakSetup
    \/ SpeakLocalTimer
    \/ UtteranceEnd
    \/ SpeakCloudDone

SpecSpeak == Init /\ [][NextSpeak]_vars

Next ==
    \/ NextConn \/ NextCapture \/ NextDispatch \/ NextInbound \/ NextSpeak
    \/ NextStyle \/ NextHistory \/ NextDisconnect
    \/ RestartTimerFires \/ SessionResult \/ GroupMessageOfAnyShape \/ NextJoin
    \/ Unmount \/ NextMixed \/ NextService \/ ServerMessage

Spec == Init /\ [][Next]_vars

\* ================================================================ claims

\* C1: if processTranscript is invoked twice with the same trimmed transcript
\* less than 2 seconds apart, at most one sendToGroup call is made for it.
\* Stated for consecutive invocations, with no invocation for another
\* transcript between the two: a call that sends finds no send of the same
\* transcript less than 2 s old in its run.
C1_OneSendPerTranscriptInWindow ==
    [][Len(outbox') > Len(outbox) =>
           ~(/\ lastCall.text = Trim(outbox'[Len(outbox')])
             /\ lastCall.sentAt >= 0
             /\ now - lastCall.sentAt < DedupWindowMs)]_vars

\* C2: an inbound group message whose text equals the most recently sent
\* local transcript and which arrives less than 10 s after that send is
\* neither appended to the Message Log nor passed to speech synthesis.  The
\* transcript is taken as most recently sent when its send is the last that
\* succeeded and no send is pending.
C2_EchoSuppressed ==
    [][\A c \in Clients, p \in Payloads :
           (/\ HandleWebSocketMessage(c, p)
            /\ p.kind = "plain"
            /\ inflight = <<>>
            /\ lastSent # NoTranscript
            /\ p.text = lastSent.text
            /\ now - lastSent.timestamp < EchoWindowMs)
               => UNCHANGED <<messages, speakJobs>>]_vars

\* C3: connect() invoked while the connection state is connecting or
\* connected creates and starts no client and leaves the connection state
\* unchanged.
C3_ConnectIdempotent ==
    [][(Connect /\ (isConnecting \/ isConnected)) => UNCHANGED connVars]_vars

\* C4: a disconnected event leaves the state not connected with the 'manual
\* reconnection required' error, and from then on nothing reconnects without
\* the user: the mount logic makes no connection attempt and no client that
\* lost its connection is connected again.
C4_NoReconnectAfterDisconnected ==
    [][/\ ClientDisconnected =>
              (~isConnected' /\ ~isConnecting' /\ connectionError' = ErrLost)
       /\ (\E c \in Clients : clients[c].lost) =>
              /\ attempts'.mount = attempts.mount
              /\ \A c \in Clients :
                     (clients[c].lost /\ clients'[c].status = "connected")
                         => clients[c].status = "connected"]_vars

\* C5: startRecording invoked while capture is initializing (a call is past
\* the guard and has not yet started its engine) or listening (an engine is
\* started) changes nothing of the capture state: no probe, no new engine.
C5_StartRecordingNoOp ==
    [][(/\ Click
        /\ ~rendered.isRecording
        /\ (Len(probes) > 0 \/ ActiveEngines # {}))
           => UNCHANGED captureVars]_vars

\* C6: a connection attempt that fails on authentication or capacity ends
\* with isConnected = true and isConnecting = false, and from then on no
\* sendToGroup reaches a transport client.
C6_SimulatedConnectedSendsAreMock ==
    [][/\ (StartFails /\ connectionError' \in {ErrAuth, ErrCapacity})
              => (isConnected' /\ ~isConnecting')
       /\ connectionError \in {ErrAuth, ErrCapacity}
              => Len(inflight') <= Len(inflight)]_vars

\* C7: processTranscript calls sendToGroup only if the primary state says
\* connected (the state itself, the latest render or the closure of an engine)
\* or the side record says connected and was updated within the last 5 s.
C7_SendOnlyWhenConnected ==
    [][Len(outbox') > Len(outbox) =>
           \/ isConnected
           \/ rendered.isConnected
           \/ \E e \in Engines : engines[e].isConnected
           \/ /\ connectionStateRef.isConnected
              /\ now - connectionStateRef.lastUpdate < RecentWindowMs]_vars

\* C8: the mount logic issues at most one connection attempt in the lifetime
\* of a session, and none while the state is connected, connecting or error.
C8_MountConnectsOnce ==
    [][attempts'.mount > attempts.mount =>
           /\ attempts.mount = 0
           /\ ~isConnected /\ ~isConnecting /\ connectionError = ErrNone]_vars

\* C9: in every reachable state at most one client is active (started and not
\* stopped) and at most one recognition engine is active (started and not
\* ended).
C9_OneClientOneEngine ==
    /\ Cardinality(ActiveClients) <= 1
    /\ Cardinality(ActiveEngines) <= 1

LocalStages == {"scheduled", "speaking", "ended", "cancelled"}

\* the utterance of a job that reached speechSynthesis.speak carries its text
SpokeItsText(job) ==
    job.stage \in {"speaking", "ended", "cancelled"} => job.spoken = job.text

\* C10 as stated: without cloud credentials every speakMessage call takes the
\* local browser synthesis path for its text (once past the import) and its
\* promise does not reject.
C10_LocalPathWithoutCredentials ==
    ~config.speechKey =>
        \A j \in 1..Len(speakJobs) :
            /\ speakJobs[j].stage \in {"importing"} \cup LocalStages
            /\ SpokeItsText(speakJobs[j])

\* C10 amended: without cloud credentials the promise of speakMessage never
\* rejects and the cloud path is never taken; the call takes the local
\* browser synthesis path for its text when window.speechSynthesis exists,
\* and speaks nothing when it does not.
C10_LocalPathWhereSynthesisExists ==
    ~config.speechKey =>
        \A j \in 1..Len(speakJobs) :
            /\ speakJobs[j].stage \in
                   IF config.speechSynthesis
                     THEN {"importing"} \cup LocalStages
                     ELSE {"importing", "silent"}
            /\ SpokeItsText(speakJobs[j])
            /\ speakJobs[j].stage = "silent" => speakJobs[j].spoken = <<>>

\* a call without credentials has reached speechSynthesis.speak with its text
C10_Witness ==
    /\ ~config.speechKey
    /\ config.speechSynthesis
    /\ \E j \in 1..Len(speakJobs) :
           speakJobs[j].stage = "speaking" /\ speakJobs[j].spoken = speakJobs[j].text

\* C11: whenever the cloud synthesis of a speakMessage call fails, by a throw
\* of the set-up or through a callback of the engine, the local browser
\* synthesis is invoked for the same text: where the browser has a local
\* synthesis no call rests with a failed cloud synthesis or in silence.
C11_CloudFailureFallsBack ==
    config.speechSynthesis =>
        \A j \in 1..Len(speakJobs) :
            /\ speakJobs[j].stage \notin {"cloud-failed", "silent"}
            /\ SpokeItsText(speakJobs[j])

\* the positions of styleText where a sentence starts: after a run of
\* terminators, or at the start of the text
SentenceStarts ==
    {i \in 1..Len(styleText) :
        /\ styleText[i] \notin Terminators
        /\ i = 1 \/ styleText[i - 1] \in Terminators}

\* where the sentence that starts at i ends
SentenceEnd(i) ==
    CHOOSE j \in i..Len(styleText) :
        /\ \A k \in i..j : styleText[k] \notin Terminators
        /\ j = Len(styleText) \/ styleText[j + 1] \in Terminators

\* the sentences that hold more than blanks
NonEmptyStarts ==
    {i \in SentenceStarts : \E k \in i..SentenceEnd(i) : styleText[k] # Blank}

\* the k-th non-empty sentence, without the blanks around it
SentenceWords(k) ==
    LET i == CHOOSE s \in NonEmptyStarts :
                 Cardinality({r \in NonEmptyStarts : r < s}) = k - 1
        words == {w \in i..SentenceEnd(i) : styleText[w] # Blank}
        first == CHOOSE w \in words : \A v \in words : w <= v
        last == CHOOSE w \in words : \A v \in words : v <= w
    IN  SubSeq(styleText, first, last)

\* the categories in their fixed order, and whether a sentence matches one
CategoryStyles ==
    <<"cheerful", "friendly", "assistant", "empathetic", "hopeful", "friendly",
      "excited">>

MatchesCategory(c, lower) ==
    CASE c = 1 -> IncludesAny(lower, GreetingWords)
      [] c = 2 -> IncludesAny(lower, WeatherWords)
      [] c = 3 -> \/ IncludesAny(lower, ScheduleWords)
                  \/ /\ IncludesWords(lower, <<"time">>)
                     /\ IncludesWords(lower, <<"am">>) \/ IncludesWords(lower, <<"pm">>)
      [] c = 4 -> IncludesAny(lower, CautionWords)
      [] c = 5 -> IncludesAny(lower, SuggestionWords)
      [] c = 6 -> IncludesAny(lower, HelpWords)
      [] c = 7 -> IncludesAny(lower, EnthusiasmWords)

FirstCategoryStyle(words) ==
    LET lower == ToLowerCase(words)
        matched == {c \in 1..7 : MatchesCategory(c, lower)}
    IN  IF matched = {} THEN "friendly"
        ELSE CategoryStyles[CHOOSE c \in matched : \A d \in matched : c <= d]

GoodMorningText ==
    <<"Good", Blank, "morning", "!", Blank, "The", Blank, "weather", Blank, "is",
      Blank, "sunny", ".">>

\* C12: the style classifier yields one segment per non-empty sentence, in
\* order, each with the style of the first category the sentence matches in
\* the order greeting, weather, scheduling, caution, suggestion, offer of
\* help, enthusiasm, else friendly; 'Good morning! The weather is sunny.'
\* yields exactly two segments, cheerful then friendly.
C12_OneStyledSegmentPerSentence ==
    styleRun.done =>
        LET parts == styleRun.styledParts
        IN  /\ Len(parts) = Cardinality(NonEmptyStarts)
            /\ \A k \in 1..Len(parts) :
                   /\ SubSeq(parts[k].text, 1, Len(SentenceWords(k))) = SentenceWords(k)
                   /\ parts[k].style = FirstCategoryStyle(SentenceWords(k))
            /\ styleText = GoodMorningText =>
                   [k \in 1..Len(parts) |-> parts[k].style] = <<"cheerful", "friendly">>

\* the classifier ran on 'Good morning! The weather is sunny.'
C12_Witness ==
    /\ styleRun.done
    /\ styleText = GoodMorningText
    /\ Len(styleRun.styledParts) = 2

\* C13: an inbound group message is suppressed (neither logged nor spoken) if
\* and only if its text equals the text of the echo guard and it arrives less
\* than 10 s after the guard's time; every other inbound group message is
\* accepted.  Stated of every message a connected client can deliver.
C13_SuppressedIffEcho ==
    \A c \in Clients, p \in Payloads :
        clients[c].status = "connected" =>
            (Suppresses(p) <=>
                (/\ lastProcessedRef # NoTranscript
                 /\ MessageText(p) = lastProcessedRef.text
                 /\ now - lastProcessedRef.timestamp < EchoWindowMs))

\* C14: when no connection client was ever created (the client reference is
\* null), every sendToGroup call resolves successfully and makes no transport
\* call: the run of processTranscript goes on to its success branch in the
\* same step and nothing waits for the transport.
C14_NoClientSendsAreSimulated ==
    [][(/\ clients = <<>>
        /\ clientRef = 0
        /\ outbox' # outbox)
           => /\ inflight' = inflight
              /\ lastSent' = [text |-> outbox'[Len(outbox')], timestamp |-> now]
              /\ messages'[Len(messages')] = UserMessage(outbox'[Len(outbox')], TRUE)]_vars

\* a send was simulated though no client was ever created
C14_Witness ==
    /\ clients = <<>>
    /\ clientRef = 0
    /\ outbox # <<>>
    /\ inflight = <<>>

\* C15: after a confirmed clearHistory the Message Log is empty, and it stays
\* empty (every read returns the empty sequence) until the next append; if
\* the confirmation is declined the log is unchanged.
C15_ClearEmptiesTheLog ==
    [][/\ (ClearHistory /\ lastConfirm' = "accepted") => messages' = <<>>
       /\ (ClearHistory /\ lastConfirm' = "declined") => messages' = messages
       /\ (messages = <<>> /\ messages' # <<>>) =>
              /\ EngineResult \/ SendResolves
              /\ \A i \in 1..Len(messages') : messages'[i].sender = "user"]_vars

\* the log was cleared on confirmation after the coordinator had appended to it
C15_Witness ==
    /\ lastConfirm = "accepted"
    /\ messages = <<>>
    /\ outbox # <<>>

\* what the hook holds once it has let go of its client
Released == client = 0 /\ clientRef = 0 /\ ~isConnected /\ ~isConnecting

\* C16: on a stopped event the hook releases its client reference entirely
\* (client state and client ref both null) and is neither connected nor
\* connecting; after disconnect() the same holds and no reconnect timer is
\* pending.
C16_StoppedAndDisconnectRelease ==
    [][/\ ClientStopped => Released'
       /\ ((Disconnect /\ clientRef = 0) \/ DisconnectResumes) =>
              Released' /\ reconnectTimeoutRef' = 0]_vars

\* a disconnect() ran to its end and the client it stopped reported 'stopped'
C16_Witness ==
    /\ isManualDisconnectRef
    /\ disconnects = 0
    /\ Released
    /\ \E c \in Clients : clients[c].status = "stopped"

\* C17: if the recognition engine ends while the coordinator is listening and
\* not mid-teardown (the user has not stopped capture), the engine is
\* restarted after a short delay and the capture state remains listening:
\* the end of the engine the coordinator holds leaves isRecording set and a
\* restart scheduled.
C17_UnexpectedEndRestarts ==
    [][\A e \in Engines :
           (/\ isRecording
            /\ ~isInitializingRef
            /\ recognitionRef = e
            /\ engines[e].status = "started"
            /\ engines'[e].status = "ended")
               => isRecording' /\ e \in restartTimers']_vars

\* C18: after stopRecording no engine start() is invoked by a pending
\* auto-restart timer, and the capture state ends idle: no restart timer is
\* ever pending, so none is left to fire after a stop, and stopRecording
\* leaves the coordinator idle without an engine.
C18_NoRestartAfterStop ==
    [][/\ restartTimers' = {}
       /\ (Click /\ rendered.isRecording) => ~isRecording' /\ recognitionRef' = 0]_vars

\* stopRecording stopped a running engine
C18_Witness ==
    /\ ~isRecording
    /\ recognitionRef = 0
    /\ \E e \in Engines : engines[e].status = "stopping"

\* the tokens of the final results of a list
FinalTokens(results) ==
    UNION {{results[k].transcript[i] : i \in 1..Len(results[k].transcript)} :
              k \in {n \in 1..Len(results) : results[n].isFinal}}

\* the texts a step hands on: the transcript of the call, what it logs and
\* what it sends
HandedOn ==
    {lastCall'.text}
        \cup {messages'[i].text : i \in (Len(messages) + 1)..Len(messages')}
        \cup {outbox'[i] : i \in (Len(outbox) + 1)..Len(outbox')}

\* C19: only text of final recognition results is dispatched to
\* processTranscript: interim text is never part of a dispatched transcript,
\* and a final transcript that is empty or white space only causes no log
\* append, no update of the dedup marker and no send.
C19_OnlyFinalTextDispatched ==
    [][\A e \in Engines :
           resultLists'[e] # resultLists[e] =>
               /\ dispatchVars' # dispatchVars =>
                      \A text \in HandedOn : \A i \in 1..Len(text) :
                          text[i] \in FinalTokens(resultLists'[e])
               /\ FinalTokens(resultLists'[e]) \subseteq {Blank} =>
                      UNCHANGED <<messages, lastProcessedRef, outbox, inflight>>]_vars

\* a session holds a final and an interim result, and the final one was sent
C19_Witness ==
    \E e \in Engines :
        /\ \E k \in 1..Len(resultLists[e]) : ~resultLists[e][k].isFinal
        /\ \E k \in 1..Len(resultLists[e]) :
               /\ resultLists[e][k].isFinal
               /\ outbox # <<>>
               /\ outbox[Len(outbox)] = resultLists[e][k].transcript

\* C20: within one capture session each finalized speech segment is
\* dispatched to processTranscript at most once: a result event whose new
\* segment is interim triggers no dispatch (nothing is logged, marked or
\* sent), and what is logged and sent for a new final segment is that
\* segment alone, without the earlier final segments.
C20_SegmentDispatchedOnce ==
    [][\A e \in Engines :
           resultLists'[e] # resultLists[e] =>
               LET segment == resultLists'[e][Len(resultLists'[e])]
               IN  IF segment.isFinal
                     THEN /\ \A i \in (Len(messages) + 1)..Len(messages') :
                                 messages'[i].text = Trim(segment.transcript)
                          /\ \A i \in (Len(outbox) + 1)..Len(outbox') :
                                 outbox'[i] = Trim(segment.transcript)
                     ELSE UNCHANGED <<messages, lastProcessedRef, outbox, inflight>>]_vars

\* the entries a step appends to the Message Log
NewEntries == SubSeq(messages', Len(messages) + 1, Len(messages'))

\* a send succeeds in this step: the transport acknowledges it, or the hook
\* simulates it in the step that calls it
SendSucceeds == SendResolves \/ (outbox' # outbox /\ inflight' = inflight)

\* C21: a dispatch that passes the dedup check appends the local-user entry
\* with isAudio false to the Message Log before any send is attempted, and
\* appends the second entry, with isAudio true, if and only if and only
\* after the send succeeded: the entries for a transcript appear in the
\* order false, then true.
C21_LoggedBeforeSentMarkedAfter ==
    [][/\ outbox' # outbox =>
              /\ NewEntries # <<>>
              /\ NewEntries[1] = UserMessage(outbox'[Len(outbox')], FALSE)
       /\ (\E i \in 1..Len(NewEntries) : NewEntries[i].isAudio) <=> SendSucceeds
       /\ \A i \in (Len(messages) + 1)..Len(messages') :
              messages'[i].isAudio =>
                  \E j \in 1..(i - 1) :
                      messages'[j] = UserMessage(messages'[i].text, FALSE)]_vars

\* the transport acknowledged a send: its two entries stand in the log
C21_Witness ==
    /\ clients # <<>>
    /\ inflight = <<>>
    /\ lastSent # NoTranscript
    /\ Len(messages) >= 2
    /\ messages[1] = UserMessage(lastSent.text, FALSE)
    /\ messages[2] = UserMessage(lastSent.text, TRUE)

\* C22: the echo guard is set to (T, now) only when the send of T has
\* succeeded: a dispatch whose send is refused as not connected or whose
\* send fails leaves the guard unchanged.  The guard is the record that
\* handleWebSocketMessage compares inbound text with.
C22_GuardSetOnlyOnSuccess ==
    [][lastProcessedRef' # lastProcessedRef =>
           /\ SendSucceeds
           /\ lastProcessedRef' = [text |-> lastSent'.text, timestamp |-> now]]_vars

\* C23: if the send of a dispatched transcript fails, an error is shown to
\* the user and there is no automatic retry: the dispatch made its one send
\* attempt, no entry with isAudio true is appended, and the connection state
\* is unchanged.
C23_FailedSendShownNotRetried ==
    [][SendRejects =>
           /\ sendErrorShown'
           /\ outbox' = outbox
           /\ Len(inflight') = Len(inflight) - 1
           /\ messages' = messages
           /\ UNCHANGED connVars]_vars

\* the one send of a dispatch failed: the notice is up, the log holds the
\* entry of the dispatch alone
C23_Witness ==
    /\ sendErrorShown
    /\ inflight = <<>>
    /\ Len(outbox) = 1
    /\ messages = <<UserMessage(outbox[1], FALSE)>>

\* C24: each inbound group message that is not suppressed yields exactly one
\* Message Log append (sender remote, isAudio false, text = the extracted
\* text) and exactly one speech-synthesis dispatch of that same text, for
\* every payload shape (plain string, JSON string envelope, structured
\* object).
C24_OneAppendOneSpeech ==
    [][\A c \in Clients, p \in PayloadShapes :
           (HandleWebSocketMessage(c, p) /\ HasPayload(p) /\ ~Suppresses(p))
               => /\ messages' = Append(messages, ReceivedMessage(MessageText(p)))
                  /\ speakJobs' = Append(speakJobs, SpeakCall(MessageText(p)))]_vars

\* C25: speech for an accepted inbound message is produced through the
\* dynamic per-sentence styling path (sentence split, per-sentence style
\* classification, one mixed-style synthesis call), not through the plain
\* single-style path: handling the message runs
\* speakReceivedMessageWithDynamicStyles on its text and starts no plain
\* speakMessage call.
C25_InboundSpeechIsStyled ==
    [][\A c \in Clients, p \in Payloads :
           (HandleWebSocketMessage(c, p) /\ ~Suppresses(p))
               => /\ styleRun'.done
                  /\ styleRun'.styledParts = StyledParts(MessageText(p))
                  /\ speakJobs' = speakJobs]_vars

\* the text the claim C26 gives: of a string that parses, data, else text,
\* else the string; of a string that does not parse, the string; of an
\* object, data, else text, else its string representation
ClaimedText(p) ==
    CASE p.kind = "plain" -> p.text
      [] p.kind = "json" ->
            IF Truthy(p.fields.data) THEN p.fields.data.chars
            ELSE IF Truthy(p.fields.text) THEN p.fields.text.chars
            ELSE p.text
      [] p.kind = "object" ->
            IF Truthy(p.fields.data) THEN p.fields.data.chars
            ELSE IF Truthy(p.fields.text) THEN p.fields.text.chars
            ELSE JsonText(p.fields)

\* the text of a field value taken in place of the payload: of a JSON
\* string its data field, of any other value its string form
TextOfValue(v) == IF v.type = "json" THEN v.inner ELSE v.chars

\* the claim as amended: a structured payload is first replaced by its
\* message field, else by its data field, when that is truthy
AmendedText(p) ==
    IF p.kind # "object" THEN ClaimedText(p)
    ELSE IF Truthy(p.fields.message) THEN TextOfValue(p.fields.message)
    ELSE IF Truthy(p.fields.data) THEN TextOfValue(p.fields.data)
    ELSE IF Truthy(p.fields.text) THEN p.fields.text.chars
    ELSE JsonText(p.fields)

\* C26 as stated: the text appended for an accepted inbound message is, for
\* a string payload that parses as a JSON envelope, its data field, else its
\* text field, else the raw string; for a string that fails to parse, the
\* raw string; for an already structured payload, data, else text, else the
\* payload's string representation.
C26_TextIsDataElseText ==
    [][\A c \in Clients, p \in PayloadShapes :
           (HandleWebSocketMessage(c, p) /\ HasPayload(p) /\ ~Suppresses(p))
               => messages' = Append(messages, ReceivedMessage(ClaimedText(p)))]_vars

\* C26 as amended: as stated for a string payload; for a structured payload
\* the text is extracted from its message field if that is truthy, else
\* from its data field if that is truthy (a string value by the rules for
\* strings, any other value as its string form), and with neither it is the
\* text field, else the payload's string representation.
C26_TextIsMessageElseDataElseText ==
    [][\A c \in Clients, p \in PayloadShapes :
           (HandleWebSocketMessage(c, p) /\ HasPayload(p) /\ ~Suppresses(p))
               => messages' = Append(messages, ReceivedMessage(AmendedText(p)))]_vars

\* the log holds a text that only the message or data field of a structured
\* payload, itself a JSON string, can have produced, and one that only a
\* string representation can have produced
C26_Witness ==
    /\ \E i \in 1..Len(messages) : messages[i].text = <<"status">>
    /\ \E i \in 1..Len(messages) : messages[i].text = JsonText(NoFields)

\* C27: after the capture engine reports an error the capture state is idle
\* (not listening, not initializing), and a subsequent startRecording is
\* accepted rather than rejected by the guard: where the button offers
\* startRecording its guard is open, and the render that follows the error
\* draws the button with startRecording.
C27_ErrorLeavesCaptureIdle ==
    [][EngineError =>
           /\ ~isRecording'
           /\ ~isInitializingRef'
           /\ ~rendered'.isRecording => ~StartRecordingGuard'
           /\ ~Tracked'.isRecording]_vars

\* an engine has reported an error, the view is up to date and the start
\* guard is open
C27_Witness ==
    /\ \E e \in Engines : engines[e].status = "failing"
    /\ rendered = Tracked
    /\ ~rendered.isRecording
    /\ ~StartRecordingGuard

\* C28: startRecording probes microphone permission before committing to
\* the recognition engine.  If the probe fails, no recognition engine is
\* created or started, and the capture state is idle with the initializing
\* guard cleared (the notice of the failure is shown on the only path
\* through the catch); if it succeeds, the probe handle is released before
\* the engine is started.
C28_ProbeBeforeEngine ==
    [][/\ ProbeDenied =>
              /\ engines' = engines
              /\ recognitionRef' = recognitionRef
              /\ ~isRecording'
              /\ ~isInitializingRef'
       /\ ProbeGranted =>
              /\ Len(engines') = Len(engines) + 1
              /\ engines'[Len(engines')].stream = "stopped"]_vars

\* C29: a late end event from a capture session that the user already
\* stopped does not alter a newer session: if a new startRecording is
\* initializing or listening when the old engine's end event is delivered,
\* the listening and initializing flags of the new session are unchanged,
\* so the start guard still rejects further starts.
C29_LateEndLeavesNewSession ==
    [][(/\ EngineEnd
        /\ \E e \in Engines : /\ engines[e].status = "stopping"
                              /\ engines'[e].status = "ended"
        /\ isInitializingRef \/ isRecording)
           => UNCHANGED <<isRecording, isInitializingRef>>]_vars

C31_NothingActiveAfterUnmount ==
    unmounted => ActiveClients = {} /\ ActiveEngines = {}

\* s is an initial part of t
IsPrefix(s, t) == Len(s) <= Len(t) /\ SubSeq(t, 1, Len(s)) = s

\* C32: every Session Coordinator operation (transcript dispatch, inbound
\* message handling) changes the Message Log only by appending at its end:
\* the existing entries and their order are unchanged, and entries are
\* removed only by the History Viewer's explicit bulk clear.
C32_LogIsAppendOnly ==
    [][/\ ~ClearHistory => IsPrefix(messages, messages')
       /\ ~IsPrefix(messages, messages') =>
              ClearHistory /\ lastConfirm' = "accepted" /\ messages' = <<>>]_vars

\* the log holds an inbound entry followed by the two entries of a dispatch
C32_Witness ==
    /\ Len(messages) = 3
    /\ messages[1].sender = "cortana"
    /\ messages[2].sender = "user" /\ ~messages[2].isAudio
    /\ messages[3].sender = "user" /\ messages[3].isAudio

\* the positions of the SSML where a style block opens, and the i-th of them
BlockStarts(ssml) == {k \in 1..Len(ssml) : ssml[k] = "<express-as"}

NthBlock(ssml, i) ==
    CHOOSE k \in BlockStarts(ssml) :
        Cardinality({j \in BlockStarts(ssml) : j < k}) = i - 1

Count(ssml, token) == Cardinality({k \in 1..Len(ssml) : ssml[k] = token})

\* C33: speakMessageWithMixedStyles submits exactly one synthesis call whose
\* SSML contains one express-as block per input part, in input order, under
\* a single voice element (missing style/degree default to friendly/1.3); if
\* it throws before submitting, speakMessage is invoked exactly once with
\* the parts' texts concatenated in order (a blank between them).
C33_OneCallOneBlockPerPart ==
    /\ Len(ssmlCalls) + Len(speakJobs) <= 1
    /\ ssmlCalls # <<>> =>
          LET ssml == ssmlCalls[1] IN
          /\ Count(ssml, "<voice>") = 1 /\ Count(ssml, "</voice>") = 1
          /\ ssml[2] = "<voice>" /\ ssml[Len(ssml) - 1] = "</voice>"
          /\ Cardinality(BlockStarts(ssml)) = Len(textParts)
          /\ Count(ssml, "</express-as>") = Len(textParts)
          /\ \A i \in 1..Len(textParts) :
                LET k == NthBlock(ssml, i)
                    part == textParts[i]
                IN  /\ ssml[k + 1] = (IF part.style = Missing THEN "friendly" ELSE part.style)
                    /\ ssml[k + 2] = (IF part.degree = Missing THEN "1.3" ELSE part.degree)
                    /\ SubSeq(ssml, k + 4, k + 3 + Len(part.text)) = part.text
                    /\ ssml[k + 4 + Len(part.text)] = "</express-as>"
    /\ speakJobs # <<>> =>
          LET text == speakJobs[1].text IN
          /\ Len(text) = (IF textParts = <<>> THEN 0 ELSE Len(textParts) - 1)
                + Cardinality({<<i, j>> \in (1..Len(textParts)) \X (1..2) :
                                  j <= Len(textParts[i].text)})
          /\ \A i \in 1..Len(textParts) :
                \E k \in 0..Len(text) :
                    /\ SubSeq(text, k + 1, k + Len(textParts[i].text)) = textParts[i].text
                    /\ Count(SubSeq(text, 1, k), Blank) = i - 1

\* two parts, the first without style and degree, went out in one call
C33_Witness ==
    /\ Len(ssmlCalls) = 1
    /\ Len(textParts) = 2
    /\ textParts[1].style = Missing /\ textParts[1].degree = Missing
    /\ textParts[2].style = "cheerful"

\* the set-up threw and the two parts were handed to speakMessage
C33_WitnessFallback ==
    /\ ssmlCalls = <<>>
    /\ Len(textParts) = 2
    /\ Len(speakJobs) = 1

\* a marker occurs in the name outside the feminine words that hold it
\* ('male' lies within 'female', 'man' within 'woman')
OccursOutside(name, marker, prefix) ==
    \E i \in 0..(Len(name) - Len(marker)) :
        /\ SubSeq(name, i + 1, i + Len(marker)) = marker
        /\ ~(i >= Len(prefix) /\ SubSeq(name, i - Len(prefix) + 1, i) = prefix)

\* the name of the voice holds a marker consistent with the gender
Consistent(voice, gender) ==
    LET name == LowerCase(voice.name) IN
    /\ StartsWithEn(voice.lang)
    /\ IF gender = "female"
         THEN \E marker \in FemaleMarkers : IncludesString(name, marker)
         ELSE \/ \E marker \in MaleMarkers \ {<<"m", "a", "l", "e">>, <<"m", "a", "n">>} :
                    IncludesString(name, marker)
              \/ OccursOutside(name, <<"m", "a", "l", "e">>, <<"f", "e">>)
              \/ OccursOutside(name, <<"m", "a", "n">>, <<"w", "o">>)

\* C34: local voice resolution (findPreferredVoice): for a preferred voice
\* id in the static mapping, the chosen voice is an English voice whose name
\* matches a marker consistent with the mapped gender tag when such a voice
\* exists (a male-tagged preference never selects a voice on a feminine
\* marker such as 'female' or 'woman', and vice versa); otherwise it is any
\* English voice; otherwise null.
C34_VoiceMatchesGender ==
    (utterances # <<>> /\ VoiceMap(voicePreference) # "") =>
        LET chosen == utterances[1].voice
            consistent == {v \in Range(voices) : Consistent(v, VoiceMap(voicePreference))}
            english == {v \in Range(voices) : StartsWithEn(v.lang)}
        IN  IF consistent # {} THEN chosen \in consistent
            ELSE IF english # {} THEN chosen \in english
            ELSE chosen = NoVoice

NoEnglishVoice == \A i \in 1..Len(voices) : ~StartsWithEn(voices[i].lang)

\* C35 as stated: in the local-fallback speak path (AIService.speakText),
\* when voice resolution finds no matching voice and no English voice,
\* playback is skipped: no utterance is submitted to the local synthesis
\* engine.
C35_NoVoiceNoUtterance ==
    NoEnglishVoice => utterances = <<>>

\* C35 as amended: when voice resolution finds no matching voice and no
\* English voice, the utterance is submitted to the local synthesis engine
\* once with no voice set on it, so that the engine's default voice speaks.
C35_NoVoiceDefaultVoice ==
    (NoEnglishVoice /\ utterances # <<>>) =>
        Len(utterances) = 1 /\ utterances[1].voice = NoVoice

\* speakText has run where the only local voices are French
C35_Witness ==
    /\ voices # <<>>
    /\ NoEnglishVoice
    /\ Len(utterances) = 1

\* C36: inbound server-message events, and group-message events with an
\* empty payload, never change the Message Log and never trigger speech
\* synthesis; only group-message events with a payload can do so.
C36_OnlyGroupMessagesWithPayload ==
    [][/\ ServerMessage => UNCHANGED <<messages, speakJobs>>
       /\ \A c \in Clients, p \in PayloadShapes :
              (Receive("group-message", c, p) /\ ~HasPayload(p))
                  => UNCHANGED <<messages, speakJobs>>
       /\ <<messages, speakJobs>>' # <<messages, speakJobs>> =>
              /\ lastMessage'.type = "group-message"
              /\ \E c \in Clients, p \in PayloadShapes :
                     HasPayload(p) /\ Receive("group-message", c, p)]_vars

\* a server message was the last to arrive, after a group message that was
\* logged and spoken
C36_Witness ==
    /\ lastMessage.type = "server-message"
    /\ Len(messages) = 1
    /\ Len(speakJobs) = 1

\* C37: every dispatch that sets the transcribing flag eventually clears it,
\* whether the send succeeds, fails, or is rejected as not connected, so the
\* capture button is never left disabled forever, assuming the send call
\* eventually returns.
C37_TranscribingIsCleared ==
    isTranscribing ~> ~isTranscribing

\* the flag is set while a send is pending, after an earlier dispatch was
\* refused as not connected and another failed
C37_Witness ==
    /\ isTranscribing
    /\ inflight # <<>>
    /\ sendErrorShown
    /\ Len(messages) > Len(outbox)

\* C38: in every reachable state of the connection hook isConnected and
\* isConnecting are never both true, under any interleaving of connect(),
\* disconnect(), the client's connected, disconnected and stopped events and
\* connect failures.
C38_NotConnectedAndConnecting ==
    ~(isConnected /\ isConnecting)

====
